---- MODULE Spec2Model ----
(***************************************************************************)
(* Model of the Playwright Jenkins reporter (src/src/index.ts).            *)
(*                                                                         *)
(* The reporter is a passive object driven by four callbacks of the host   *)
(* test runner: onBegin, onTestBegin, onTestEnd, onEnd.  The model holds   *)
(* the reporter's fields as variables, one action per callback, and a      *)
(* host that delivers the callbacks: it starts attempts of tests, ends     *)
(* them with a status, re-runs a test while its latest attempt did not     *)
(* meet the test's expectation and attempts are left, and may end the run  *)
(* whenever no attempt is in flight (an interrupted run).                  *)
(*                                                                         *)
(* Text written to stdout is modelled as a sequence of output items: one   *)
(* item per banner, per results block, per table and per status line.      *)
(* Glyphs are named in ASCII: "check", "cross", "tilde", "dash".           *)
(***************************************************************************)
EXTENDS Integers, Sequences, FiniteSets, TLC

\* ------------------------------------------------------------------ bounds
\* Largest number of tests suite.allTests() returns.
MaxTests == 2
\* Largest retry budget (test.retries) of a test.
MaxRetries == 2

\* The spec files tests may live in.
Files == {"a.spec.ts", "b.spec.ts"}

\* The test lists onBegin may receive: up to MaxTests tests, each in one of the
\* files. The reporter treats file paths as opaque keys, so the first test's file
\* is fixed.
Suites ==
    UNION {{tests \in [1..n -> Files] : tests[1] = "a.spec.ts"} : n \in 1..MaxTests}

\* TestResult.status values the reporter consumes.
Statuses == {"passed", "failed", "timedOut", "skipped"}

\* FullResult.status values passed to onEnd.
RunStatuses == {"passed", "failed"}

VARIABLES
    phase,              \* "idle", "begun" or "ended": which callbacks were delivered
    now,                \* the value the next Date.now() returns: every reading of the
                        \* clock returns the next instant, the first one instant 1
    allTests,           \* host: suite.allTests(), as the sequence of the tests' files
    runRetries,         \* host: the retry budget of the run's tests (config.retries)
    host,               \* host: per test, its attempts so far
    fullResult,         \* host: the FullResult.status it handed to onEnd ("none" before)
    totalTests, passed, failed, pending, skipped, flaky,
    startTime,
    failureDetails,     \* sequence of FailedTest records
    specOrder,          \* sequence of file paths
    specStats,          \* file path -> SpecStats
    displayedSpecStart, \* set of file paths
    out                 \* what was written to stdout, in order

hostVars == <<phase, now, allTests, runRetries, host, fullResult>>
counterVars == <<totalTests, passed, failed, pending, skipped, flaky>>
reporterVars == <<totalTests, passed, failed, pending, skipped, flaky, startTime,
                  failureDetails, specOrder, specStats, displayedSpecStart, out>>
vars == <<phase, now, allTests, runRetries, host, fullResult, totalTests, passed, failed, pending, skipped,
          flaky, startTime, failureDetails, specOrder, specStats,
          displayedSpecStart, out>>

\* ------------------------------------------------------------- helpers
RECURSIVE SelectSeqIdx(_, _, _)
\* The file paths of a test list in first-seen order (specOrder's construction).
SelectSeqIdx(s, i, acc) ==
    IF i > Len(s) THEN acc
    ELSE SelectSeqIdx(s, i + 1,
                      IF \E j \in 1..Len(acc) : acc[j] = s[i] THEN acc
                      ELSE Append(acc, s[i]))

FirstSeen(s) == SelectSeqIdx(s, 1, <<>>)

SeqRange(s) == {s[i] : i \in 1..Len(s)}

\* specCounts: how many tests of the list are in file fp.
SpecCount(s, fp) == Cardinality({i \in 1..Len(s) : s[i] = fp})

\* The title of the i-th test; titles are unique within a run.
TitleOf(i) == i

\* test.titlePath(): root, project, file, title.
TitlePath(fp, title) == <<"", "chromium", fp, title>>

\* A fresh SpecStats record.
NewSpec(fp, total) ==
    [filePath |-> fp, total |-> total, completed |-> 0, passing |-> 0,
     failing |-> 0, flaky |-> 0, pending |-> 0, skipped |-> 0,
     startedAt |-> 0, endedAt |-> 0, videoPaths |-> {}, screenshotPaths |-> {},
     testLines |-> <<>>]

\* ------------------------------------------------------------------ host
\* A test the host has not started. `attempts` counts the attempts that ended and
\* `last` is the status of the latest of them; the host re-runs a test only after
\* an attempt that did not meet the expectation, so of the attempts counted only
\* the latest can have met it.
NotStarted == [stage |-> "pending", expectedStatus |-> "passed", fixme |-> FALSE,
               attempts |-> 0, last |-> "none"]

\* TestCase.outcome() when an attempt ends with `status` after `retry` attempts that
\* did not meet the expectation: skipped when nothing ran, expected when every
\* attempt met the expectation, unexpected when none did, flaky otherwise.
Outcome(retry, status, expectedStatus) ==
    IF retry = 0 /\ status = "skipped" THEN "skipped"
    ELSE IF status = expectedStatus THEN (IF retry = 0 THEN "expected" ELSE "flaky")
    ELSE "unexpected"

\* The statuses an attempt of a test can end with: a test that is skipped is not
\* run; any other test passes, fails or times out.
AttemptStatuses(expectedStatus) ==
    IF expectedStatus = "skipped" THEN {"skipped"}
    ELSE {"passed", "failed", "timedOut"}

\* The host runs another attempt iff the latest one did not meet the expectation
\* and the retry budget is not used up.
WillRetry(status, expectedStatus, retry, retries) ==
    status # expectedStatus /\ retry < retries

\* Attachments of an attempt: a failing attempt carries one screenshot and one
\* video file (screenshot: only-on-failure, video: retain-on-failure).
Attachments(title, status, retry) ==
    IF status \in {"failed", "timedOut"}
    THEN {[name |-> "screenshot", path |-> <<"png", title, retry>>],
          [name |-> "video", path |-> <<"webm", title, retry>>]}
    ELSE {}

\* Mutant: the block lists the failures of every file, not only the spec's own.
PrintSpecResults_AllFailures(spec, details, order) ==
    <<[k |-> "results",
       file |-> spec.filePath,
       index |-> CHOOSE i \in 1..Len(order) : order[i] = spec.filePath,
       of |-> Len(order),
       lines |-> spec.testLines,
       tests |-> spec.total,
       passing |-> spec.passing,
       failing |-> spec.failing,
       flaky |-> spec.flaky,
       pending |-> spec.pending,
       skipped |-> spec.skipped,
       screenshots |-> Cardinality(spec.screenshotPaths),
       video |-> spec.videoPaths # {},
       duration |-> spec.endedAt - spec.startedAt,
       color |-> IF spec.failing = 0 THEN "green" ELSE "red",
       failures |-> details]>>

\* ----------------------------------------------------------- reporter
\* printSpecResults: the block of one spec, as one output item.
PrintSpecResults(spec, details, order) ==
    <<[k |-> "results",
       file |-> spec.filePath,
       index |-> CHOOSE i \in 1..Len(order) : order[i] = spec.filePath,
       of |-> Len(order),
       lines |-> spec.testLines,
       tests |-> spec.total,
       passing |-> spec.passing,
       failing |-> spec.failing,
       flaky |-> spec.flaky,
       pending |-> spec.pending,
       skipped |-> spec.skipped,
       screenshots |-> Cardinality(spec.screenshotPaths),
       video |-> spec.videoPaths # {},
       duration |-> spec.endedAt - spec.startedAt,
       color |-> IF spec.failing = 0 THEN "green" ELSE "red",
       failures |-> SelectSeq(details, LAMBDA fl : fl.filePath = spec.filePath)]>>

Init ==
    /\ phase = "idle"
    /\ now = 1
    /\ allTests = <<>>
    /\ runRetries = 0
    /\ host = <<>>
    /\ fullResult = "none"
    /\ totalTests = 0
    /\ passed = 0
    /\ failed = 0
    /\ pending = 0
    /\ skipped = 0
    /\ flaky = 0
    /\ startTime = 0
    /\ failureDetails = <<>>
    /\ specOrder = <<>>
    /\ specStats = <<>>
    /\ displayedSpecStart = {}
    /\ out = <<>>

\* onBegin(config, suite)
OnBegin(tests, budget) ==
    /\ phase = "idle"
    /\ phase' = "begun"
    /\ allTests' = tests
    /\ runRetries' = budget
    /\ host' = [i \in 1..Len(tests) |-> NotStarted]
    /\ startTime' = now
    /\ now' = now + 1
    /\ totalTests' = Len(tests)
    /\ specOrder' = FirstSeen(tests)
    /\ specStats' = [fp \in SeqRange(tests) |-> NewSpec(fp, SpecCount(tests, fp))]
    /\ out' = Append(out, [k |-> "runStarting", specs |-> Len(FirstSeen(tests))])
    /\ UNCHANGED <<fullResult, passed, failed, pending, skipped, flaky, failureDetails,
                   displayedSpecStart>>

\* Mutant: onTestBegin marks the file as displayed without looking for its spec.
OnTestBegin_NoSpecCheck(filePath) ==
    IF filePath \in displayedSpecStart
    THEN UNCHANGED <<now, totalTests, passed, failed, pending, skipped, flaky,
                     startTime, failureDetails, specOrder, specStats,
                     displayedSpecStart, out>>
    ELSE /\ displayedSpecStart' = displayedSpecStart \cup {filePath}
         /\ specStats' = [fp \in DOMAIN specStats |->
                             IF fp = filePath /\ specStats[fp].startedAt = 0
                             THEN [specStats[fp] EXCEPT !.startedAt = now]
                             ELSE specStats[fp]]
         /\ now' = IF filePath \in DOMAIN specStats /\ specStats[filePath].startedAt = 0
                   THEN now + 1 ELSE now
         /\ UNCHANGED <<totalTests, passed, failed, pending, skipped, flaky,
                        startTime, failureDetails, specOrder, out>>

\* Mutant: every onTestBegin for a known file stamps startedAt.
OnTestBegin_Restamp(filePath) ==
    IF filePath \notin DOMAIN specStats
    THEN UNCHANGED <<now, totalTests, passed, failed, pending, skipped, flaky,
                     startTime, failureDetails, specOrder, specStats,
                     displayedSpecStart, out>>
    ELSE /\ displayedSpecStart' = displayedSpecStart \cup {filePath}
         /\ specStats' = [specStats EXCEPT ![filePath].startedAt = now]
         /\ now' = now + 1
         /\ UNCHANGED <<totalTests, passed, failed, pending, skipped, flaky,
                        startTime, failureDetails, specOrder, out>>

\* onTestBegin(test)
OnTestBegin(filePath) ==
    IF filePath \notin DOMAIN specStats \/ filePath \in displayedSpecStart
    THEN UNCHANGED <<now, totalTests, passed, failed, pending, skipped, flaky,
                     startTime, failureDetails, specOrder, specStats,
                     displayedSpecStart, out>>
    ELSE /\ displayedSpecStart' = displayedSpecStart \cup {filePath}
         /\ specStats' = [specStats EXCEPT ![filePath].startedAt =
                              IF @ = 0 THEN now ELSE @]
         /\ now' = IF specStats[filePath].startedAt = 0 THEN now + 1 ELSE now
         /\ UNCHANGED <<totalTests, passed, failed, pending, skipped, flaky,
                        startTime, failureDetails, specOrder, out>>

\* result.status === 'passed' && outcome === 'unexpected'
IsUnexpectedPass(status, outcome) == status = "passed" /\ outcome = "unexpected"

\* Mutant: every attempt is taken for the final one.
IsFinalAttempt_Always(status, outcome, retry, retries) == TRUE

\* Mutant: a timed-out attempt is not recognised as a failing attempt.
IsFinalAttempt_NoTimeout(status, outcome, retry, retries) ==
    \/ retry = retries
    \/ outcome = "expected"
    \/ (status # "failed" /\ ~IsUnexpectedPass(status, outcome))

\* Mutant: the last configured attempt is not recognised as final.
IsFinalAttempt_NoLast(status, outcome, retry, retries) ==
    \/ outcome = "expected"
    \/ (status # "failed" /\ status # "timedOut" /\ ~IsUnexpectedPass(status, outcome))

\* The final-attempt predicate of onTestEnd.
IsFinalAttempt(status, outcome, retry, retries) ==
    \/ retry = retries
    \/ outcome = "expected"
    \/ (status # "failed" /\ status # "timedOut" /\ ~IsUnexpectedPass(status, outcome))

\* Mutant: a flaky test is counted as flaky only, not as passed.
Bucket_FlakyOnly(status, outcome, isFixme) ==
    IF outcome = "expected" THEN "passed"
    ELSE IF outcome = "flaky" THEN "flakyOnly"
    ELSE IF status = "skipped" THEN (IF isFixme THEN "pending" ELSE "skipped")
    ELSE "failed"

\* Mutant: the flaky branch is missing, a flaky test falls through to failed.
Bucket_NoFlaky(status, outcome, isFixme) ==
    IF outcome = "expected" THEN "passed"
    ELSE IF status = "skipped" THEN (IF isFixme THEN "pending" ELSE "skipped")
    ELSE "failed"

\* Mutant: the skipped branch is missing, a skipped test falls through to failed.
Bucket_SkippedIsFailed(status, outcome, isFixme) ==
    IF outcome = "expected" THEN "passed"
    ELSE IF outcome = "flaky" THEN "flaky"
    ELSE "failed"

\* Mutant: the status decides before the outcome, a failed attempt is a failed test.
Bucket_FailedStatusFails(status, outcome, isFixme) ==
    IF status = "failed" THEN "failed"
    ELSE IF outcome = "expected" THEN "passed"
    ELSE IF outcome = "flaky" THEN "flaky"
    ELSE IF status = "skipped" THEN (IF isFixme THEN "pending" ELSE "skipped")
    ELSE "failed"

\* Mutant: the fixme annotation is not looked at, every skipped test is skipped.
Bucket_FixmeIgnored(status, outcome, isFixme) ==
    IF outcome = "expected" THEN "passed"
    ELSE IF outcome = "flaky" THEN "flaky"
    ELSE IF status = "skipped" THEN "skipped"
    ELSE "failed"

\* The bucket a finalized test is counted in: the if/else chain of onTestEnd.
Bucket(status, outcome, isFixme) ==
    IF outcome = "expected" THEN "passed"
    ELSE IF outcome = "flaky" THEN "flaky"
    ELSE IF status = "skipped" THEN (IF isFixme THEN "pending" ELSE "skipped")
    ELSE "failed"

\* The line pushed to spec.testLines for a finalized test.
TestLine(title, status, outcome, isFixme) ==
    IF outcome = "expected"
    THEN [mark |-> "check", title |-> title, color |-> "green",
          suffix |-> IF status = "failed" THEN "(expected failure)" ELSE ""]
    ELSE IF outcome = "flaky"
    THEN [mark |-> "tilde", title |-> title, color |-> "green", suffix |-> "(flaky)"]
    ELSE IF status = "skipped"
    THEN [mark |-> "dash", title |-> title, color |-> "none",
          suffix |-> IF isFixme THEN "(fixme)" ELSE "(skipped)"]
    ELSE [mark |-> "cross", title |-> title, color |-> "red",
          suffix |-> IF status = "passed" THEN "(unexpected pass)" ELSE ""]

\* Mutant: the record never carries the unexpected-pass flag.
FailureRecord_NoFlag(filePath, title, status) ==
    [filePath |-> filePath, titlePath |-> TitlePath(filePath, title),
     unexpectedPass |-> FALSE]

\* Mutant: the record is filed under the first spec file, whatever the test's file.
FailureRecord_FirstFile(filePath, title, status) ==
    [filePath |-> "a.spec.ts", titlePath |-> TitlePath(filePath, title),
     unexpectedPass |-> (status = "passed")]

\* The FailedTest record pushed for a test counted as failed.
FailureRecord(filePath, title, status) ==
    [filePath |-> filePath, titlePath |-> TitlePath(filePath, title),
     unexpectedPass |-> (status = "passed")]

\* The paths of the attachments named `name`.
PathsOf(attachments, name) == {a.path : a \in {b \in attachments : b.name = name}}

\* Mutant: onTestEnd never flushes.
CompletedAll_Never(spec) == FALSE

\* Mutant: a spec counts as complete also when it counted more than its total.
CompletedAll_AtLeast(spec) == spec.completed >= spec.total

\* A spec is flushed by onTestEnd when its last test was counted.
CompletedAll(spec) == spec.completed = spec.total

\* Mutant: a flaky test is added to the spec's passing count and to the global
\* flaky count but not to the global passed count.
OnTestEnd_FlakyNotPassed(test, result) ==
    IF test.file \notin DOMAIN specStats
    THEN UNCHANGED <<now, reporterVars>>
    ELSE IF ~IsFinalAttempt(result.status, test.outcome, result.retry, test.retries)
    THEN UNCHANGED <<now, reporterVars>>
    ELSE
      LET spec   == specStats[test.file]
          bucket == Bucket(result.status, test.outcome, test.fixme)
          counted ==
              [spec EXCEPT
                 !.completed = @ + 1,
                 !.passing = IF bucket \in {"passed", "flaky"} THEN @ + 1 ELSE @,
                 !.flaky   = IF bucket = "flaky" THEN @ + 1 ELSE @,
                 !.pending = IF bucket = "pending" THEN @ + 1 ELSE @,
                 !.skipped = IF bucket = "skipped" THEN @ + 1 ELSE @,
                 !.failing = IF bucket = "failed" THEN @ + 1 ELSE @,
                 !.testLines = Append(@, TestLine(test.title, result.status,
                                                  test.outcome, test.fixme)),
                 !.videoPaths = @ \cup PathsOf(result.attachments, "video"),
                 !.screenshotPaths = @ \cup PathsOf(result.attachments, "screenshot")]
          details == IF bucket = "failed"
                     THEN Append(failureDetails,
                                 FailureRecord(test.file, test.title, result.status))
                     ELSE failureDetails
          ended  == IF CompletedAll(counted)
                    THEN [counted EXCEPT !.endedAt = now] ELSE counted
      IN  /\ passed'  = IF bucket = "passed" THEN passed + 1 ELSE passed
          /\ flaky'   = IF bucket = "flaky" THEN flaky + 1 ELSE flaky
          /\ pending' = IF bucket = "pending" THEN pending + 1 ELSE pending
          /\ skipped' = IF bucket = "skipped" THEN skipped + 1 ELSE skipped
          /\ failed'  = IF bucket = "failed" THEN failed + 1 ELSE failed
          /\ failureDetails' = details
          /\ specStats' = [specStats EXCEPT ![test.file] = ended]
          /\ out' = IF CompletedAll(counted)
                    THEN out \o PrintSpecResults(ended, details, specOrder)
                    ELSE out
          /\ now' = IF CompletedAll(counted) THEN now + 1 ELSE now
          /\ UNCHANGED <<totalTests, startTime, specOrder, displayedSpecStart>>

\* onTestEnd(test, result); test = [file, title, retries, outcome, fixme],
\* result = [status, retry, attachments].
OnTestEnd(test, result) ==
    IF test.file \notin DOMAIN specStats
    THEN UNCHANGED <<now, reporterVars>>
    ELSE IF ~IsFinalAttempt(result.status, test.outcome, result.retry, test.retries)
    THEN UNCHANGED <<now, reporterVars>>
    ELSE
      LET spec   == specStats[test.file]
          bucket == Bucket(result.status, test.outcome, test.fixme)
          counted ==
              [spec EXCEPT
                 !.completed = @ + 1,
                 !.passing = IF bucket \in {"passed", "flaky"} THEN @ + 1 ELSE @,
                 !.flaky   = IF bucket = "flaky" THEN @ + 1 ELSE @,
                 !.pending = IF bucket = "pending" THEN @ + 1 ELSE @,
                 !.skipped = IF bucket = "skipped" THEN @ + 1 ELSE @,
                 !.failing = IF bucket = "failed" THEN @ + 1 ELSE @,
                 !.testLines = Append(@, TestLine(test.title, result.status,
                                                  test.outcome, test.fixme)),
                 !.videoPaths = @ \cup PathsOf(result.attachments, "video"),
                 !.screenshotPaths = @ \cup PathsOf(result.attachments, "screenshot")]
          details == IF bucket = "failed"
                     THEN Append(failureDetails,
                                 FailureRecord(test.file, test.title, result.status))
                     ELSE failureDetails
          ended  == IF CompletedAll(counted)
                    THEN [counted EXCEPT !.endedAt = now] ELSE counted
      IN  /\ passed'  = IF bucket \in {"passed", "flaky"} THEN passed + 1 ELSE passed
          /\ flaky'   = IF bucket = "flaky" THEN flaky + 1 ELSE flaky
          /\ pending' = IF bucket = "pending" THEN pending + 1 ELSE pending
          /\ skipped' = IF bucket = "skipped" THEN skipped + 1 ELSE skipped
          /\ failed'  = IF bucket = "failed" THEN failed + 1 ELSE failed
          /\ failureDetails' = details
          /\ specStats' = [specStats EXCEPT ![test.file] = ended]
          /\ out' = IF CompletedAll(counted)
                    THEN out \o PrintSpecResults(ended, details, specOrder)
                    ELSE out
          /\ now' = IF CompletedAll(counted) THEN now + 1 ELSE now
          /\ UNCHANGED <<totalTests, startTime, specOrder, displayedSpecStart>>

\* Mutant: onEnd does not look at endedAt.
FlushAtEnd_NoEndedAt(spec) == spec.completed > 0

\* Mutant: onEnd does not look at completed.
FlushAtEnd_NoCompleted(spec) == spec.endedAt = 0

\* Mutant: onEnd flushes nothing.
FlushAtEnd_Never(spec) == FALSE

\* onEnd flushes a spec that counted a test and was not flushed yet.
FlushAtEnd(spec) == spec.completed > 0 /\ spec.endedAt = 0

\* The number of specs among the first i of `order` that onEnd flushes.
Flushed(order, i, stats) ==
    Cardinality({j \in 1..i : FlushAtEnd(stats[order[j]])})

\* Mutant: onEnd flushes without writing endedAt.
EndStats_NoStamp(order, stats, at) == stats

\* The first loop of onEnd: every spec it flushes gets endedAt from its own reading
\* of the clock, started at `at`.
EndStats(order, stats, at) ==
    [fp \in DOMAIN stats |->
        IF FlushAtEnd(stats[fp])
        THEN [stats[fp] EXCEPT !.endedAt =
                 at + Flushed(order, (CHOOSE i \in 1..Len(order) : order[i] = fp) - 1,
                              stats)]
        ELSE stats[fp]]

RECURSIVE FlushBlocks(_, _, _, _, _)
\* Mutant: onEnd writes the run-finished banner before it flushes.
FlushBlocks_AfterBanner(order, i, stats, ended, details) ==
    LET blocks == SelectSeq([n \in 1..Len(order) |->
                                [PrintSpecResults(ended[order[n]], details, order)[1]
                                   EXCEPT !.k = IF FlushAtEnd(stats[order[n]])
                                                THEN "results" ELSE "none"]],
                            LAMBDA item : item.k = "results")
    IN  IF blocks = <<>> THEN <<>> ELSE <<[k |-> "runFinished"]>> \o blocks

\* The blocks the first loop of onEnd prints, in specOrder.
FlushBlocks(order, i, stats, ended, details) ==
    IF i > Len(order) THEN <<>>
    ELSE (IF FlushAtEnd(stats[order[i]])
          THEN PrintSpecResults(ended[order[i]], details, order)
          ELSE <<>>)
         \o FlushBlocks(order, i + 1, stats, ended, details)

\* Mutant: every row of the table is a green check row.
TableRow_AlwaysGreen(spec) ==
    [file |-> spec.filePath, icon |-> "check", color |-> "green",
     duration |-> spec.endedAt - spec.startedAt,
     total |-> spec.total, passing |-> spec.passing, failing |-> spec.failing,
     pending |-> spec.pending, skipped |-> spec.skipped]

\* One row of the summary table.
TableRow(spec) ==
    [file |-> spec.filePath,
     icon |-> IF spec.failing > 0 THEN "cross" ELSE "check",
     color |-> IF spec.failing > 0 THEN "red" ELSE "green",
     duration |-> spec.endedAt - spec.startedAt,
     total |-> spec.total, passing |-> spec.passing, failing |-> spec.failing,
     pending |-> spec.pending, skipped |-> spec.skipped]

\* String.prototype.toUpperCase on the run statuses.
ToUpperCase(s) ==
    CASE s = "passed" -> "PASSED"
      [] s = "failed" -> "FAILED"

\* Mutant: the status line is derived from the failed counter.
StatusLine_FromCounter(status) ==
    [k |-> "status", status |-> IF failed = 0 THEN "PASSED" ELSE "FAILED"]

\* The last line of onEnd: "Status: " and the run's status in upper case.
StatusLine(status) == [k |-> "status", status |-> ToUpperCase(status)]

\* What onEnd(result) does to the reporter: the flush of the specs counted in
\* part, the run-finished banner, the table and the status line.
OnEndWrites(status) ==
    /\ specStats' = EndStats(specOrder, specStats, now)
    /\ now' = now + Flushed(specOrder, Len(specOrder), specStats) + 1
    /\ out' = out
              \o FlushBlocks(specOrder, 1, specStats, specStats', failureDetails)
              \o <<[k |-> "runFinished"],
                   [k |-> "table",
                    rows |-> [i \in 1..Len(specOrder) |-> TableRow(specStats'[specOrder[i]])],
                    footer |-> [icon |-> IF failed = 0 THEN "check" ELSE "cross",
                                color |-> IF failed = 0 THEN "green" ELSE "red",
                                label |-> IF failed = 0 THEN "All specs passed!"
                                          ELSE "Some specs failed",
                                duration |-> now' - 1 - startTime,
                                total |-> totalTests, passed |-> passed,
                                failed |-> failed, pending |-> pending,
                                skipped |-> skipped]],
                   StatusLine(status)>>
    /\ UNCHANGED <<totalTests, passed, failed, pending, skipped, flaky, startTime,
                   failureDetails, specOrder, displayedSpecStart>>

\* onEnd(result). The host ends the run when it likes (an interrupted run leaves
\* tests that never started or were not run again), but not while an attempt is
\* in flight: every onTestBegin is followed by its onTestEnd before onEnd.
OnEnd(status) ==
    /\ phase = "begun"
    /\ \A i \in DOMAIN host : host[i].stage # "running"
    /\ phase' = "ended"
    /\ fullResult' = status
    /\ OnEndWrites(status)
    /\ UNCHANGED <<allTests, runRetries, host>>

\* ------------------------------------------------------- host actions
\* The host starts the first attempt of test i; the test's expectation and its
\* fixme annotation are those of its declaration.
HostStart(i, expectedStatus, isFixme) ==
    /\ phase = "begun"
    /\ i \in DOMAIN host
    /\ host[i].stage = "pending"
    /\ isFixme => expectedStatus = "skipped"
    /\ host' = [host EXCEPT ![i] =
                   [stage |-> "running", expectedStatus |-> expectedStatus,
                    fixme |-> isFixme, attempts |-> 0, last |-> "none"]]
    /\ OnTestBegin(allTests[i])
    /\ UNCHANGED <<phase, allTests, runRetries, fullResult>>

\* The host starts a retry of test i.
HostRetry(i) ==
    /\ phase = "begun"
    /\ i \in DOMAIN host
    /\ host[i].stage = "waiting"
    /\ host' = [host EXCEPT ![i].stage = "running"]
    /\ OnTestBegin(allTests[i])
    /\ UNCHANGED <<phase, allTests, runRetries, fullResult>>

\* The running attempt of test i ends with `status`.
HostFinish(i, status) ==
    /\ phase = "begun"
    /\ i \in DOMAIN host
    /\ host[i].stage = "running"
    /\ status \in AttemptStatuses(host[i].expectedStatus)
    /\ LET t     == host[i]
           retry == t.attempts
       IN  /\ host' = [host EXCEPT ![i] =
                          IF WillRetry(status, t.expectedStatus, retry, runRetries)
                          THEN [t EXCEPT !.stage = "waiting", !.attempts = retry + 1]
                          ELSE [t EXCEPT !.stage = "done", !.attempts = retry + 1,
                                         !.last = status]]
           /\ OnTestEnd([file |-> allTests[i], title |-> TitleOf(i),
                         retries |-> runRetries,
                         outcome |-> Outcome(retry, status, t.expectedStatus),
                         fixme |-> t.fixme],
                        [status |-> status, retry |-> retry,
                         attachments |-> Attachments(TitleOf(i), status, retry)])
    /\ UNCHANGED <<phase, allTests, runRetries, fullResult>>

Next ==
    \/ \E tests \in Suites : \E budget \in 0..MaxRetries : OnBegin(tests, budget)
    \/ \E i \in 1..MaxTests : \E e \in {"passed", "failed", "skipped"} :
         \E fx \in BOOLEAN : HostStart(i, e, fx)
    \/ \E i \in 1..MaxTests : HostRetry(i)
    \/ \E i \in 1..MaxTests : \E s \in Statuses : HostFinish(i, s)
    \/ \E s \in RunStatuses : OnEnd(s)

Spec == Init /\ [][Next]_vars

\* ------------------------------------------- the (Failures) section
\* Largest number of FailedTest records of the spec whose block is printed.
MaxRecords == 2

\* An absent optional field.
Undefined == "undefined"

\* The configurations (projects) a test runs under: titlePath[1].
Projects == {"chromium", "firefox"}

\* The titles of the failing tests of the spec.
FailedTitles == {1, 2}

\* Error messages of failing attempts.
Messages == {"m1", "m2"}

\* result.error of an attempt that ended without an error object.
NoError == [message |-> Undefined, stack |-> <<>>]

\* result.error of an attempt that threw `message` under `project`: the stack
\* holds the message line, a frame in user code and a frame in node_modules.
ErrorOf(message, project) ==
    [message |-> message,
     stack |-> <<[at |-> FALSE, text |-> <<"Error:", message>>],
                 [at |-> TRUE, text |-> <<"e2e", project>>],
                 [at |-> TRUE, text |-> <<"node_modules", project>>]>>]

\* The FailedTest record onTestEnd pushes for a test of `project` counted as
\* failed: error is result.error, the two texts are the fixture's attachments.
FailedTest(filePath, project, title, error, unexpectedPass, consoleErrors, networkFailures) ==
    [filePath |-> filePath, titlePath |-> <<"", project, filePath, title>>,
     error |-> error, unexpectedPass |-> unexpectedPass,
     consoleErrors |-> consoleErrors, networkFailures |-> networkFailures]

\* Truthiness of an optional string.
Truthy(text) == text # Undefined /\ text # ""

\* failure.titlePath.slice(2): the title path without root and configuration.
GroupKey(failure) == SubSeq(failure.titlePath, 3, Len(failure.titlePath))

RECURSIVE GroupsFrom(_, _, _)
\* The grouping loop of printSpecResults: a record joins the group of its key or
\* opens a new group after the existing ones.
GroupsFrom(specFailures, i, groups) ==
    IF i > Len(specFailures) THEN groups
    ELSE LET failure == specFailures[i]
             key     == GroupKey(failure)
         IN  GroupsFrom(specFailures, i + 1,
                 IF \E g \in 1..Len(groups) : groups[g].key = key
                 THEN [g \in 1..Len(groups) |->
                          IF groups[g].key = key
                          THEN [groups[g] EXCEPT !.entries = Append(@, failure)]
                          ELSE groups[g]]
                 ELSE Append(groups, [key |-> key, entries |-> <<failure>>]))

Groups(specFailures) == GroupsFrom(specFailures, 1, <<>>)

\* Mutant: a group counts as sharing its error whatever the messages are.
AllSameError_Always(entries) == Len(entries) > 1

\* Mutant: a group never counts as sharing its error.
AllSameError_Never(entries) == FALSE

\* Mutant: absent messages count as one and the same message.
AllSameError_AbsentIsSame(entries) ==
    /\ Len(entries) > 1
    /\ \A n \in 1..Len(entries) : entries[n].error.message = entries[1].error.message

\* allSameError: several entries, the first has a message, all have that message.
AllSameError(entries) ==
    /\ Len(entries) > 1
    /\ entries[1].error.message # Undefined
    /\ \A n \in 1..Len(entries) : entries[n].error.message = entries[1].error.message

\* The stack lines printEntry prints: those that start with "at ".
StackFrames(stack) == SelectSeq(stack, LAMBDA line : line.at)

\* Mutant: a missing message is printed as it is, without a placeholder.
PrintEntry_NoPlaceholder(failure, skipError) ==
    (IF skipError THEN <<>>
     ELSE <<[k |-> "message", text |-> failure.error.message]>>
          \o (IF failure.error.stack # <<>>
              THEN <<[k |-> "stack", text |-> StackFrames(failure.error.stack)]>>
              ELSE <<>>))
    \o (IF Truthy(failure.networkFailures)
        THEN <<[k |-> "network", text |-> failure.networkFailures]>> ELSE <<>>)
    \o (IF Truthy(failure.consoleErrors)
        THEN <<[k |-> "console", text |-> failure.consoleErrors]>> ELSE <<>>)

\* Mutant: an absent console text is printed as a "None" placeholder section.
PrintEntry_ConsolePlaceholder(failure, skipError) ==
    (IF skipError THEN <<>>
     ELSE <<[k |-> "message",
             text |-> IF Truthy(failure.error.message) THEN failure.error.message
                      ELSE IF failure.unexpectedPass
                      THEN "Test was expected to fail but passed"
                      ELSE "No error message available"]>>
          \o (IF failure.error.stack # <<>>
              THEN <<[k |-> "stack", text |-> StackFrames(failure.error.stack)]>>
              ELSE <<>>))
    \o (IF Truthy(failure.networkFailures)
        THEN <<[k |-> "network", text |-> failure.networkFailures]>> ELSE <<>>)
    \o <<[k |-> "console",
          text |-> IF Truthy(failure.consoleErrors) THEN failure.consoleErrors
                   ELSE "None"]>>

\* printEntry(failure, skipError): message (or placeholder) and stack frames
\* unless skipError, then the network and the console section if present.
PrintEntry(failure, skipError) ==
    (IF skipError THEN <<>>
     ELSE <<[k |-> "message",
             text |-> IF Truthy(failure.error.message) THEN failure.error.message
                      ELSE IF failure.unexpectedPass
                      THEN "Test was expected to fail but passed"
                      ELSE "No error message available"]>>
          \o (IF failure.error.stack # <<>>
              THEN <<[k |-> "stack", text |-> StackFrames(failure.error.stack)]>>
              ELSE <<>>))
    \o (IF Truthy(failure.networkFailures)
        THEN <<[k |-> "network", text |-> failure.networkFailures]>> ELSE <<>>)
    \o (IF Truthy(failure.consoleErrors)
        THEN <<[k |-> "console", text |-> failure.consoleErrors]>> ELSE <<>>)

\* withExtras: the entries of the group that carry an attachment text.
WithExtras(entries) ==
    SelectSeq(entries, LAMBDA e : Truthy(e.networkFailures) \/ Truthy(e.consoleErrors))

RECURSIVE PrintEach(_, _, _)
\* The loops over entries: each entry under the label of its configuration.
PrintEach(entries, n, skipError) ==
    IF n > Len(entries) THEN <<>>
    ELSE <<[k |-> "label", text |-> entries[n].titlePath[2]]>>
         \o PrintEntry(entries[n], skipError)
         \o PrintEach(entries, n + 1, skipError)

\* The body of groups.forEach for the group at position idx.
PrintGroup(group, idx) ==
    IF Len(group.entries) = 1
    THEN <<[k |-> "header", idx |-> idx,
            text |-> SubSeq(group.entries[1].titlePath, 2,
                            Len(group.entries[1].titlePath))]>>
         \o PrintEntry(group.entries[1], FALSE)
    ELSE IF AllSameError(group.entries)
    THEN <<[k |-> "header", idx |-> idx, text |-> group.key]>>
         \o PrintEntry(group.entries[1], FALSE)
         \o PrintEach(WithExtras(group.entries), 1, TRUE)
    ELSE <<[k |-> "header", idx |-> idx, text |-> group.key]>>
         \o PrintEach(group.entries, 1, FALSE)

RECURSIVE PrintGroups(_, _)
PrintGroups(groups, idx) ==
    IF idx > Len(groups) THEN <<>>
    ELSE PrintGroup(groups[idx], idx) \o PrintGroups(groups, idx + 1)

\* The failures part of printSpecResults for the spec of file fp.
PrintFailures(details, fp) ==
    LET specFailures == SelectSeq(details, LAMBDA fl : fl.filePath = fp)
    IN  IF Len(specFailures) > 0
        THEN <<[k |-> "failures"]>> \o PrintGroups(Groups(specFailures), 1)
        ELSE <<>>

\* The spec file whose failures are printed.
FailedSpec == "a.spec.ts"

\* A reporter that has begun a run of FailedSpec and printed nothing of it.
FailuresInit ==
    /\ phase = "begun"
    /\ now = 1
    /\ allTests = <<>>
    /\ runRetries = 0
    /\ host = <<>>
    /\ fullResult = "none"
    /\ totalTests = 0
    /\ passed = 0
    /\ failed = 0
    /\ pending = 0
    /\ skipped = 0
    /\ flaky = 0
    /\ startTime = 0
    /\ failureDetails = <<>>
    /\ specOrder = <<FailedSpec>>
    /\ specStats = <<>>
    /\ displayedSpecStart = {}
    /\ out = <<>>

\* The push of onTestEnd for a test counted as failed, with the fields of the
\* record as the inputs. Titles and project names are opaque to the reporter, so
\* the first record's are fixed.
RecordFailure(project, title, error, unexpectedPass, consoleErrors, networkFailures) ==
    /\ phase = "begun"
    /\ Len(failureDetails) < MaxRecords
    /\ unexpectedPass => error = NoError
    /\ failureDetails = <<>> => (title = 1 /\ project = "firefox")
    /\ failureDetails' = Append(failureDetails,
                                FailedTest(FailedSpec, project, title, error,
                                           unexpectedPass, consoleErrors,
                                           networkFailures))
    /\ failed' = failed + 1
    /\ UNCHANGED <<phase, now, allTests, runRetries, host, fullResult, totalTests,
                   passed, pending, skipped, flaky, startTime, specOrder, specStats,
                   displayedSpecStart, out>>

\* printSpecResults writes the failures of FailedSpec.
PrintSpecFailures ==
    /\ phase = "begun"
    /\ phase' = "ended"
    /\ out' = out \o PrintFailures(failureDetails, FailedSpec)
    /\ UNCHANGED <<now, allTests, runRetries, host, fullResult, totalTests, passed,
                   failed, pending, skipped, flaky, startTime, failureDetails,
                   specOrder, specStats, displayedSpecStart>>

FailuresNext ==
    \/ \E project \in Projects : \E title \in FailedTitles :
         \E error \in {NoError} \cup {ErrorOf(m, project) : m \in Messages \cup {Undefined}} :
           \E unexpectedPass \in BOOLEAN :
             \E consoleErrors \in {Undefined, "console text"} :
               \E networkFailures \in {Undefined, "network text"} :
                 RecordFailure(project, title, error, unexpectedPass, consoleErrors,
                               networkFailures)
    \/ PrintSpecFailures

FailuresSpec == FailuresInit /\ [][FailuresNext]_vars

\* ------------------------------------- callbacks in any order, any file
\* Largest number of test callbacks the host delivers after onBegin.
MaxCalls == 2

\* The reporter after onBegin for one of the test lists, with a retry budget of
\* one; here `host` is the log of the test callbacks delivered since, each with
\* its name and its file.
CallsInit ==
    /\ phase = "begun"
    /\ now = 2
    /\ allTests \in Suites
    /\ runRetries = 1
    /\ host = <<>>
    /\ fullResult = "none"
    /\ totalTests = Len(allTests)
    /\ passed = 0
    /\ failed = 0
    /\ pending = 0
    /\ skipped = 0
    /\ flaky = 0
    /\ startTime = 1
    /\ failureDetails = <<>>
    /\ specOrder = FirstSeen(allTests)
    /\ specStats = [fp \in SeqRange(allTests) |-> NewSpec(fp, SpecCount(allTests, fp))]
    /\ displayedSpecStart = {}
    /\ out = <<[k |-> "runStarting", specs |-> Len(FirstSeen(allTests))]>>

\* The host calls onTestBegin for a test of file fp, known to the reporter or not.
CallTestBegin(fp) ==
    /\ host' = Append(host, [call |-> "onTestBegin", file |-> fp, slow |-> FALSE])
    /\ OnTestBegin(fp)
    /\ UNCHANGED <<phase, allTests, runRetries, fullResult>>

\* The host calls onTestEnd for a test of file fp, known to the reporter or not,
\* with any status, outcome and retry number; the test may carry the fixme
\* annotation (when skipped) and the slow annotation.
CallTestEnd(fp, title, status, outcome, isFixme, isSlow, retry) ==
    /\ isFixme => status = "skipped"
    /\ host' = Append(host, [call |-> "onTestEnd", file |-> fp, slow |-> isSlow])
    /\ OnTestEnd([file |-> fp, title |-> title, retries |-> runRetries,
                  outcome |-> outcome, fixme |-> isFixme, slow |-> isSlow],
                 [status |-> status, retry |-> retry,
                  attachments |-> Attachments(title, status, retry)])
    /\ UNCHANGED <<phase, allTests, runRetries, fullResult>>

CallsNext ==
    \/ \E fp \in Files : Len(host) < MaxCalls /\ CallTestBegin(fp)
    \/ \E fp \in Files : \E status \in Statuses :
         \E outcome \in {"expected", "unexpected", "flaky", "skipped"} :
           \E isFixme \in BOOLEAN : \E retry \in 0..runRetries :
             /\ Len(host) < MaxCalls
             /\ CallTestEnd(fp, TitleOf(1), status, outcome, isFixme, FALSE, retry)

CallsSpec == CallsInit /\ [][CallsNext]_vars

\* ------------------------------------ errors outside tests, slow tests
\* The run of a suite whose tests are all in one file, the host's calls logged
\* in `host` as above.
EventsInit ==
    /\ CallsInit
    /\ \A i \in 1..Len(allTests) : allTests[i] = "a.spec.ts"

\* The host reports an error raised outside of any test (reporter.onError).
\* JenkinsReporter declares no onError member, so the host has nothing to call
\* and the reporter's state and output stay as they are.
CallError ==
    /\ host' = Append(host, [call |-> "onError", file |-> "", slow |-> FALSE])
    /\ UNCHANGED <<phase, now, allTests, runRetries, fullResult, reporterVars>>

EventsNext ==
    \/ Len(host) < MaxCalls /\ CallTestBegin("a.spec.ts")
    \/ \E status \in Statuses :
         \E outcome \in {"expected", "unexpected", "flaky", "skipped"} :
           \E isFixme \in BOOLEAN : \E isSlow \in BOOLEAN : \E retry \in 0..runRetries :
             \* the slow tests drawn are the passing ones
             /\ isSlow => (status = "passed" /\ outcome = "expected")
             /\ Len(host) < MaxCalls
             /\ CallTestEnd("a.spec.ts", TitleOf(1), status, outcome, isFixme, isSlow, retry)
    \/ Len(host) < MaxCalls /\ CallError

EventsSpec == EventsInit /\ [][EventsNext]_vars

\* ---------------------------------------- the filename column of the table
\* Longest spec file name, in characters.
MaxNameLen == 22

\* The initial tableFilenameWidth and the floor of the computed one.
MinFilenameWidth == 20

\* tableRowWidth - tableFilenameWidth.
RowExtraWidth == 51

\* Characters: the path separator, the ellipsis, the space and the i-th
\* character of a file name.
Slash == <<"/", 0>>
Ellipsis == <<"...", 0>>
Space == <<" ", 0>>
NameChar(i) == <<"c", i>>

\* A spec file path: a directory and a file name of n characters.
PathOf(n) == <<NameChar(0), Slash>> \o [i \in 1..n |-> NameChar(i)]

\* The lists of spec file paths onBegin may see: one or two files, with names of
\* 1 to MaxNameLen characters.
PathLists ==
    {<<PathOf(n)>> : n \in 1..MaxNameLen}
    \cup {<<PathOf(n), PathOf(m)>> : n, m \in 1..MaxNameLen}

\* getFileName: what follows the last separator of the path.
GetFileName(filePath) ==
    LET seps == {i \in 1..Len(filePath) : filePath[i] = Slash}
        last == IF seps = {} THEN 0 ELSE CHOOSE i \in seps : \A j \in seps : j <= i
    IN  SubSeq(filePath, last + 1, Len(filePath))

\* Math.max over a non-empty set of numbers.
MathMax(S) == CHOOSE x \in S : \A y \in S : y <= x

\* Mutant: the filename column is fixed at its initial width.
TableFilenameWidth_Fixed(order) == MinFilenameWidth

\* tableFilenameWidth as onBegin computes it: the longest file name, at least 20.
TableFilenameWidth(order) ==
    MathMax({Len(GetFileName(order[i])) : i \in 1..Len(order)} \cup {MinFilenameWidth})

\* Mutant: truncate cuts to max characters and appends the ellipsis.
Truncate_TooLong(value, max) ==
    IF Len(value) <= max THEN value
    ELSE SubSeq(value, 1, max) \o <<Ellipsis>>

\* truncate(value, max)
Truncate(value, max) ==
    IF Len(value) <= max THEN value
    ELSE SubSeq(value, 1, MathMax({0, max - 1})) \o <<Ellipsis>>

\* String.prototype.padEnd(width)
PadEnd(value, width) ==
    IF Len(value) >= width THEN value
    ELSE value \o [i \in 1..(width - Len(value)) |-> Space]

\* The reporter after onBegin for one of the path lists, one test per file.
WidthInit ==
    /\ phase = "begun"
    /\ now = 2
    /\ allTests \in PathLists
    /\ runRetries = 0
    /\ host = <<>>
    /\ fullResult = "none"
    /\ totalTests = Len(allTests)
    /\ passed = 0
    /\ failed = 0
    /\ pending = 0
    /\ skipped = 0
    /\ flaky = 0
    /\ startTime = 1
    /\ failureDetails = <<>>
    /\ specOrder = FirstSeen(allTests)
    /\ specStats = [fp \in SeqRange(allTests) |-> NewSpec(fp, SpecCount(allTests, fp))]
    /\ displayedSpecStart = {}
    /\ out = <<>>

\* The table of onEnd, as far as the filename column goes: the width of the
\* rules and, per spec, the filename cell of its row.
PrintTable ==
    /\ phase = "begun"
    /\ phase' = "ended"
    /\ out' = Append(out,
                     [k |-> "table",
                      rule |-> TableFilenameWidth(specOrder) + RowExtraWidth,
                      cells |-> [i \in 1..Len(specOrder) |->
                                    PadEnd(Truncate(GetFileName(specOrder[i]),
                                                    TableFilenameWidth(specOrder)),
                                           TableFilenameWidth(specOrder))]])
    /\ UNCHANGED <<now, allTests, runRetries, host, fullResult, totalTests, passed,
                   failed, pending, skipped, flaky, startTime, failureDetails,
                   specOrder, specStats, displayedSpecStart>>

\* truncate applied to the file name of a spec and a column width.
TruncateName(i, max) ==
    /\ phase = "begun"
    /\ i \in 1..Len(specOrder)
    /\ phase' = "ended"
    /\ out' = Append(out, [k |-> "truncate", value |-> GetFileName(specOrder[i]),
                           max |-> max,
                           text |-> Truncate(GetFileName(specOrder[i]), max)])
    /\ UNCHANGED <<now, allTests, runRetries, host, fullResult, totalTests, passed,
                   failed, pending, skipped, flaky, startTime, failureDetails,
                   specOrder, specStats, displayedSpecStart>>

WidthNext ==
    \/ PrintTable
    \/ \E i \in 1..2 : \E max \in MinFilenameWidth..MaxNameLen : TruncateName(i, max)

WidthSpec == WidthInit /\ [][WidthNext]_vars

\* ------------------------------------------------ the capture fixture
\* Mutant: the fixture attaches what it captured whatever the attempt's status.
FixtureAttach_Always(status, expectedStatus, consoleMessages, networkFailures) ==
    (IF consoleMessages > 0 THEN {"console-errors"} ELSE {})
    \cup (IF networkFailures > 0 THEN {"network-failures"} ELSE {})

\* The teardown of the page fixture after an attempt: the names of the blobs it
\* attaches to the attempt's result, given how many console messages and
\* network failures it captured.
FixtureAttach(status, expectedStatus, consoleMessages, networkFailures) ==
    IF status # expectedStatus
    THEN (IF consoleMessages > 0 THEN {"console-errors"} ELSE {})
         \cup (IF networkFailures > 0 THEN {"network-failures"} ELSE {})
    ELSE {}

\* One test that uses the fixture, before its first attempt; here `host` holds
\* the test's expected status and the results of its attempts so far.
FixtureInit ==
    /\ phase = "begun"
    /\ now = 2
    /\ allTests = <<"a.spec.ts">>
    /\ runRetries \in 0..MaxRetries
    /\ host \in {[expectedStatus |-> e, results |-> <<>>] : e \in {"passed", "failed"}}
    /\ fullResult = "none"
    /\ totalTests = 1
    /\ passed = 0
    /\ failed = 0
    /\ pending = 0
    /\ skipped = 0
    /\ flaky = 0
    /\ startTime = 1
    /\ failureDetails = <<>>
    /\ specOrder = <<"a.spec.ts">>
    /\ specStats = [fp \in {"a.spec.ts"} |-> NewSpec(fp, 1)]
    /\ displayedSpecStart = {}
    /\ out = <<>>

\* The test is over: an attempt met the expectation or the budget is used up.
TestOver ==
    \/ Len(host.results) > runRetries
    \/ /\ host.results # <<>>
       /\ host.results[Len(host.results)].status = host.expectedStatus

\* An attempt of the test runs to its end with `status`, the fixture having
\* captured the given numbers of console messages and network failures.
RunAttempt(status, consoleMessages, networkFailures) ==
    /\ ~TestOver
    /\ host' = [host EXCEPT !.results =
                   Append(@, [status |-> status,
                              consoleMessages |-> consoleMessages,
                              networkFailures |-> networkFailures,
                              attachments |->
                                  FixtureAttach(status, host.expectedStatus,
                                                consoleMessages, networkFailures)])]
    /\ UNCHANGED <<phase, now, allTests, runRetries, fullResult, totalTests, passed,
                   failed, pending, skipped, flaky, startTime, failureDetails,
                   specOrder, specStats, displayedSpecStart, out>>

FixtureNext ==
    \E status \in {"passed", "failed", "timedOut"} :
        \E consoleMessages \in 0..1 : \E networkFailures \in 0..1 :
            RunAttempt(status, consoleMessages, networkFailures)

FixtureSpec == FixtureInit /\ [][FixtureNext]_vars

\* ------------------------------------------------ the Browser line
MaxProjects == 2

ProjectNames == {"", "chromium", "firefox"}

\* config.projects entries: use.browserName and use.headless may be absent, and
\* headless is a boolean only when it is "true" or "false".
ConfigProjects ==
    [name : ProjectNames,
     browserName : {Undefined, "chromium", "webkit"},
     headless : {Undefined, "true", "false"}]

RECURSIVE SeqsUpTo(_, _)
\* The sequences over S of length at most n.
SeqsUpTo(S, n) ==
    IF n = 0 THEN {<<>>}
    ELSE LET shorter == SeqsUpTo(S, n - 1)
         IN  shorter \cup {Append(s, x) : s \in {t \in shorter : Len(t) = n - 1}, x \in S}

\* A string is falsy when it is absent or empty.
Falsy(s) == s = Undefined \/ s = ""

\* `${browserName} (${isHeadless ? 'headless' : 'headed'})`
EntryOf(project) ==
    [name |-> IF ~Falsy(project.browserName) THEN project.browserName
              ELSE IF ~Falsy(project.name) THEN project.name ELSE "chromium",
     mode |-> IF project.headless \in {"true", "false"}
              THEN (IF project.headless = "true" THEN "headless" ELSE "headed")
              ELSE "headless"]

RECURSIVE Join(_)
\* entries.join(', '): the entries with a separator between neighbours.
Join(entries) ==
    IF Len(entries) <= 1 THEN entries
    ELSE <<Head(entries), [name |-> ", ", mode |-> ""]>> \o Join(Tail(entries))

RECURSIVE BrowserEntries(_, _, _)
\* The loop over config.projects: the entries pushed from project n on, given
\* the entries seen so far.
BrowserEntries(projects, running, seen) ==
    IF projects = <<>> THEN <<>>
    ELSE LET project == Head(projects)
             entry   == EntryOf(project)
         IN  IF project.name \notin running
             THEN BrowserEntries(Tail(projects), running, seen)
             ELSE IF entry \in seen
             THEN BrowserEntries(Tail(projects), running, seen)
             ELSE <<entry>> \o BrowserEntries(Tail(projects), running, seen \cup {entry})

\* Mutant: projects without tests are listed too.
GetBrowserDisplay_AllProjects(projects, tests) ==
    LET entries == BrowserEntries(projects, ProjectNames, {})
    IN  IF Len(entries) > 0 THEN Join(entries)
        ELSE <<[name |-> "chromium", mode |-> "headless"]>>

\* getBrowserDisplay(config, allTests)
GetBrowserDisplay(projects, tests) ==
    LET runningProjects == SeqRange(tests)
        entries == BrowserEntries(projects, runningProjects, {})
    IN  IF Len(entries) > 0 THEN Join(entries)
        ELSE <<[name |-> "chromium", mode |-> "headless"]>>

\* Before onBegin: `host` holds config.projects and `allTests` the project
\* segment (titlePath()[1]) of each discovered test.
BrowserInit ==
    /\ phase = "idle"
    /\ now = 1
    /\ allTests \in SeqsUpTo(ProjectNames, 2)
    /\ runRetries = 0
    /\ host \in SeqsUpTo(ConfigProjects, MaxProjects)
    /\ fullResult = "none"
    /\ totalTests = 0
    /\ passed = 0
    /\ failed = 0
    /\ pending = 0
    /\ skipped = 0
    /\ flaky = 0
    /\ startTime = 0
    /\ failureDetails = <<>>
    /\ specOrder = <<>>
    /\ specStats = <<>>
    /\ displayedSpecStart = {}
    /\ out = <<>>

\* onBegin computes the Browser line of the banner.
PrintBrowser ==
    /\ phase = "idle"
    /\ phase' = "begun"
    /\ totalTests' = Len(allTests)
    /\ out' = Append(out, [k |-> "browser", text |-> GetBrowserDisplay(host, allTests)])
    /\ UNCHANGED <<now, allTests, runRetries, host, fullResult, passed, failed,
                   pending, skipped, flaky, startTime, failureDetails, specOrder,
                   specStats, displayedSpecStart>>

BrowserNext == PrintBrowser

BrowserSpec == BrowserInit /\ [][BrowserNext]_vars

\* ------------------------------------------------ the elapsed clock
MaxMinutes == 101

Colon == 10

\* The durations drawn: whole minutes up to MaxMinutes plus some seconds and
\* milliseconds, and their negatives.
Durations ==
    {sign * (m * 60000 + s * 1000 + ms) :
        sign \in {1, -1}, m \in 0..MaxMinutes, s \in {0, 1, 9, 10, 59}, ms \in {0, 499, 999}}

RECURSIVE NumberToString(_)
\* Number.prototype.toString for a natural number: its decimal digits.
NumberToString(n) == IF n < 10 THEN <<n>> ELSE Append(NumberToString(n \div 10), n % 10)

RECURSIVE PadStart(_, _, _)
\* String.prototype.padStart(width, fill)
PadStart(text, width, fill) ==
    IF Len(text) >= width THEN text ELSE PadStart(<<fill>> \o text, width, fill)

\* Mutant: the seconds are rounded, as formatSecondsText does.
FormatClockDuration_Round(durationMs) ==
    LET totalSeconds == MathMax({0, (durationMs + 500) \div 1000})
        minutes == PadStart(NumberToString(totalSeconds \div 60), 2, 0)
        seconds == PadStart(NumberToString(totalSeconds % 60), 2, 0)
    IN  minutes \o <<Colon>> \o seconds

\* formatClockDuration(durationMs); the integer division rounds towards minus
\* infinity, as Math.floor does.
FormatClockDuration(durationMs) ==
    LET totalSeconds == MathMax({0, durationMs \div 1000})
        minutes == PadStart(NumberToString(totalSeconds \div 60), 2, 0)
        seconds == PadStart(NumberToString(totalSeconds % 60), 2, 0)
    IN  minutes \o <<Colon>> \o seconds

\* The run has begun at time 0 and onEnd reads the clock at `now`, which may
\* lie before the start when the clock was set back.
ClockInit ==
    /\ phase = "begun"
    /\ now \in Durations
    /\ allTests = <<>>
    /\ runRetries = 0
    /\ host = <<>>
    /\ fullResult = "none"
    /\ totalTests = 0
    /\ passed = 0
    /\ failed = 0
    /\ pending = 0
    /\ skipped = 0
    /\ flaky = 0
    /\ startTime = 0
    /\ failureDetails = <<>>
    /\ specOrder = <<>>
    /\ specStats = <<>>
    /\ displayedSpecStart = {}
    /\ out = <<>>

\* onEnd formats the run's elapsed time for the footer of the table.
PrintClock ==
    /\ phase = "begun"
    /\ phase' = "ended"
    /\ out' = Append(out, [k |-> "clock", text |-> FormatClockDuration(now - startTime)])
    /\ UNCHANGED <<now, allTests, runRetries, host, fullResult, totalTests, passed,
                   failed, pending, skipped, flaky, startTime, failureDetails,
                   specOrder, specStats, displayedSpecStart>>

ClockNext == PrintClock

ClockSpec == ClockInit /\ [][ClockNext]_vars

\* ------------------------------------ callbacks in any order, onEnd included
MaxEvents == 3

\* The host calls onEnd(result) at any moment, also more than once.
CallEnd(status) ==
    /\ host' = Append(host, [call |-> "onEnd", file |-> "", slow |-> FALSE])
    /\ phase' = "ended"
    /\ fullResult' = status
    /\ OnEndWrites(status)
    /\ UNCHANGED <<allTests, runRetries>>

\* Any callback for the one file of the suite, in any order: onTestEnd may come
\* without onTestBegin, again for a test already finalized, and after onEnd.
OrderNext ==
    \/ Len(host) < MaxEvents /\ CallTestBegin("a.spec.ts")
    \/ \E status \in RunStatuses : \E outcome \in {"expected", "unexpected"} :
         \E retry \in 0..runRetries :
           /\ Len(host) < MaxEvents
           /\ CallTestEnd("a.spec.ts", TitleOf(1), status, outcome, FALSE, FALSE, retry)
    \/ \E status \in RunStatuses : Len(host) < MaxEvents /\ CallEnd(status)

OrderSpec == EventsInit /\ [][OrderNext]_vars

\* ------------------------------------------------------------- claims
\* The number of results blocks of file fp in the output o.
BlockCount(o, fp) ==
    Cardinality({i \in 1..Len(o) : o[i].k = "results" /\ o[i].file = fp})

\* The position of the results block of file fp in o (0 when there is none).
BlockAt(o, fp) ==
    IF BlockCount(o, fp) = 0 THEN 0
    ELSE CHOOSE i \in 1..Len(o) : o[i].k = "results" /\ o[i].file = fp

\* The position of the run-finished banner in o (0 when there is none).
FinishedAt(o) ==
    IF \E i \in 1..Len(o) : o[i].k = "runFinished"
    THEN CHOOSE i \in 1..Len(o) : o[i].k = "runFinished"
    ELSE 0

\* The number of lines of test `title` among the lines of spec.
LineCount(spec, title) ==
    Cardinality({i \in 1..Len(spec.testLines) : spec.testLines[i].title = title})

\* The number of FailureRecords of test `title` of file fp.
RecordCount(details, fp, title) ==
    Cardinality({i \in 1..Len(details) :
                    details[i].titlePath = TitlePath(fp, title)})

\* The block o[i] shows the counters and lines of spec.
BlockShows(item, spec) ==
    /\ item.tests = spec.total
    /\ item.passing = spec.passing
    /\ item.failing = spec.failing
    /\ item.flaky = spec.flaky
    /\ item.pending = spec.pending
    /\ item.skipped = spec.skipped
    /\ item.lines = spec.testLines

\* C1: in every state the results block of every spec was printed at most once;
\* in particular a spec flushed by onTestEnd is not flushed again by onEnd.
C1_AtMostOneBlock ==
    \A fp \in DOMAIN specStats : BlockCount(out, fp) <= 1

\* C1 witness: onEnd has run after a spec was flushed by onTestEnd on completion.
C1_Witness ==
    /\ phase = "ended"
    /\ \E fp \in DOMAIN specStats :
         /\ specStats[fp].completed = specStats[fp].total
         /\ BlockCount(out, fp) = 1
         /\ BlockAt(out, fp) < FinishedAt(out)

\* C2 as stated: after onEnd every discovered spec has exactly one results block,
\* also a spec that counted no test.
C2_EverySpecFlushedAtEnd ==
    phase = "ended" =>
        \A fp \in DOMAIN specStats : BlockCount(out, fp) = 1

\* C2 amended: after onEnd a spec that counted at least one test has exactly one
\* results block, and a spec that counted none has no block (it only has its
\* row in the summary table).
C2_CountedSpecsFlushedAtEnd ==
    phase = "ended" =>
        /\ \A fp \in DOMAIN specStats :
             BlockCount(out, fp) = (IF specStats[fp].completed > 0 THEN 1 ELSE 0)
        /\ \A i \in 1..Len(out) : out[i].k = "table" =>
             {out[i].rows[j].file : j \in 1..Len(out[i].rows)} = DOMAIN specStats

\* C2 witness: the run ended with one spec that never began and counted nothing
\* and another spec that counted a test.
C2_Witness ==
    /\ phase = "ended"
    /\ \E fp \in DOMAIN specStats :
         /\ specStats[fp].completed = 0
         /\ specStats[fp].startedAt = 0
         /\ BlockCount(out, fp) = 0
    /\ \E fp \in DOMAIN specStats :
         /\ specStats[fp].completed > 0
         /\ BlockCount(out, fp) = 1

\* C3: when onEnd is called with a spec at 0 < completed < total, that call prints
\* the spec's one results block, before the run-finished banner (and so before the
\* table), sets endedAt from a clock reading of that call, and the block shows the
\* counters and lines accumulated so far.
C3_PartialSpecFlushedByOnEnd ==
    [][(phase = "begun" /\ phase' = "ended") =>
         \A fp \in DOMAIN specStats :
            (0 < specStats[fp].completed /\ specStats[fp].completed < specStats[fp].total)
            => /\ BlockCount(out, fp) = 0
               /\ BlockCount(out', fp) = 1
               /\ Len(out) < BlockAt(out', fp)
               /\ BlockAt(out', fp) < FinishedAt(out')
               /\ specStats[fp].endedAt = 0
               /\ now <= specStats'[fp].endedAt
               /\ specStats'[fp].endedAt < now'
               /\ BlockShows(out'[BlockAt(out', fp)], specStats[fp])
               /\ out'[BlockAt(out', fp)].duration
                      = specStats'[fp].endedAt - specStats[fp].startedAt
      ]_vars

\* C3 witness: the run ended while a spec had counted some of its tests but not
\* all, and its block is in the output.
C3_Witness ==
    /\ phase = "ended"
    /\ \E fp \in DOMAIN specStats :
         /\ 0 < specStats[fp].completed
         /\ specStats[fp].completed < specStats[fp].total
         /\ BlockCount(out, fp) = 1
         /\ specStats[fp].endedAt > 0

\* C4: the onTestEnd call that brings a spec's completed to total appends that
\* spec's results block to the output in the same step, as the only thing the
\* step writes, and sets endedAt to the clock reading of that call.
C4_FlushOnCompletion ==
    [][\A fp \in DOMAIN specStats :
          (/\ fp \in DOMAIN specStats'
           /\ specStats[fp].completed < specStats[fp].total
           /\ specStats'[fp].completed = specStats'[fp].total)
          => /\ BlockCount(out, fp) = 0
             /\ Len(out') = Len(out) + 1
             /\ SubSeq(out', 1, Len(out)) = out
             /\ out'[Len(out')].k = "results"
             /\ out'[Len(out')].file = fp
             /\ BlockShows(out'[Len(out')], specStats'[fp])
             /\ specStats[fp].endedAt = 0
             /\ specStats'[fp].endedAt = now
             /\ phase' = "begun"
      ]_vars

\* C4 witness: a spec counted all its tests while the run is still going, and
\* its block is the last thing written.
C4_Witness ==
    /\ phase = "begun"
    /\ \E fp \in DOMAIN specStats :
         /\ specStats[fp].completed = specStats[fp].total
         /\ specStats[fp].total > 1
         /\ out[Len(out)].k = "results"
         /\ out[Len(out)].file = fp

\* C5: in every state and for every spec,
\* passing + failing + pending + skipped = completed (flaky is not added).
C5_BucketsSumToCompleted ==
    \A fp \in DOMAIN specStats :
        specStats[fp].passing + specStats[fp].failing + specStats[fp].pending
            + specStats[fp].skipped = specStats[fp].completed

\* C5 witness: a spec counted a flaky test and a test of another bucket.
C5_Witness ==
    \E fp \in DOMAIN specStats :
        /\ specStats[fp].flaky = 1
        /\ specStats[fp].completed = 2
        /\ specStats[fp].passing = 1

\* C6: in every state and for every spec, 0 <= completed <= total, total being
\* the number of tests of that file onBegin counted.
C6_CompletedWithinTotal ==
    \A fp \in DOMAIN specStats :
        /\ 0 <= specStats[fp].completed
        /\ specStats[fp].completed <= specStats[fp].total
        /\ specStats[fp].total = SpecCount(allTests, fp)

\* C6 witness: a test of a fully counted spec needed every retry.
C6_Witness ==
    \E i \in DOMAIN host :
        /\ host[i].stage = "done"
        /\ host[i].attempts = MaxRetries + 1
        /\ specStats[allTests[i]].completed = specStats[allTests[i]].total

\* C7: an onTestEnd call for an intermediate attempt (one after which the host
\* runs the test again) changes nothing of the reporter: no counter, no spec, no
\* line, no FailureRecord, no artifact path, no output, and the clock is not read.
C7_IntermediateAttemptIsNoOp ==
    [][\A i \in DOMAIN host :
          (i \in DOMAIN host' /\ host[i].stage = "running" /\ host'[i].stage = "waiting")
          => UNCHANGED <<now, totalTests, passed, failed, pending, skipped, flaky,
                         startTime, failureDetails, specOrder, specStats,
                         displayedSpecStart, out>>
      ]_vars

\* C7 witness: two attempts of a test were delivered and the host will run it again.
C7_Witness ==
    \E i \in DOMAIN host :
        /\ host[i].stage = "waiting"
        /\ host[i].attempts = 2
        /\ specStats[allTests[i]].completed = 0

\* C8: for a test expected to pass with a retry budget of 2 whose first two
\* attempts failed (or timed out), nothing was recorded for it before the third
\* attempt, and the onTestEnd of the passing third attempt records one
\* finalization: completed + 1, one "(flaky)" line, flaky + 1 and passed + 1
\* globally and in the spec, failed unchanged, no FailureRecord.
C8_FailFailPassIsFlakyOnce ==
    [][\A i \in DOMAIN host :
          (/\ i \in DOMAIN host'
           /\ runRetries = 2
           /\ host[i].stage = "running"
           /\ host[i].expectedStatus = "passed"
           /\ host[i].attempts = 2
           /\ host'[i].stage = "done"
           /\ host'[i].last = "passed")
          => LET fp == allTests[i]
                 a  == specStats[fp]
                 b  == specStats'[fp]
             IN  /\ LineCount(a, TitleOf(i)) = 0
                 /\ RecordCount(failureDetails, fp, TitleOf(i)) = 0
                 /\ b.completed = a.completed + 1
                 /\ b.testLines = Append(a.testLines,
                                         [mark |-> "tilde", title |-> TitleOf(i),
                                          color |-> "green", suffix |-> "(flaky)"])
                 /\ b.flaky = a.flaky + 1
                 /\ b.passing = a.passing + 1
                 /\ b.failing = a.failing
                 /\ b.pending = a.pending
                 /\ b.skipped = a.skipped
                 /\ flaky' = flaky + 1
                 /\ passed' = passed + 1
                 /\ failed' = failed
                 /\ pending' = pending
                 /\ skipped' = skipped
                 /\ failureDetails' = failureDetails
      ]_vars

\* C8 witness: a test expected to pass is finished after three attempts, the
\* last of which passed, under a retry budget of 2, and it was counted as flaky.
C8_Witness ==
    /\ runRetries = 2
    /\ \E i \in DOMAIN host :
         /\ host[i].stage = "done"
         /\ host[i].expectedStatus = "passed"
         /\ host[i].attempts = 3
         /\ host[i].last = "passed"
         /\ specStats[allTests[i]].flaky >= 1
         /\ LineCount(specStats[allTests[i]], TitleOf(i)) = 1

\* C9 as stated: every test the host is finished with was finalized by exactly
\* one of its onTestEnd calls (it has exactly one test line), so a file all of
\* whose tests are finished has completed = total.
C9_EveryFinishedTestCountedOnce ==
    /\ \A i \in DOMAIN host :
         host[i].stage = "done" =>
             LineCount(specStats[allTests[i]], TitleOf(i)) = 1
    /\ \A fp \in DOMAIN specStats :
         (\A i \in DOMAIN host : allTests[i] = fp => host[i].stage = "done")
             => specStats[fp].completed = specStats[fp].total

\* C10: for a test expected to pass with retry budget R whose R + 1 attempts all
\* failed or timed out, nothing was recorded before the last attempt, and the
\* onTestEnd of the last attempt counts it as failed once: failed + 1 globally,
\* failing + 1 in the spec, one FailureRecord appended, one test line.
C10_AllAttemptsFailCountedOnce ==
    [][\A i \in DOMAIN host :
          (/\ i \in DOMAIN host'
           /\ host[i].stage = "running"
           /\ host[i].expectedStatus = "passed"
           /\ host[i].attempts = runRetries
           /\ host'[i].stage = "done"
           /\ host'[i].last \in {"failed", "timedOut"})
          => LET fp == allTests[i]
                 a  == specStats[fp]
                 b  == specStats'[fp]
             IN  /\ LineCount(a, TitleOf(i)) = 0
                 /\ RecordCount(failureDetails, fp, TitleOf(i)) = 0
                 /\ failed' = failed + 1
                 /\ b.failing = a.failing + 1
                 /\ b.completed = a.completed + 1
                 /\ LineCount(b, TitleOf(i)) = 1
                 /\ failureDetails' =
                        Append(failureDetails,
                               [filePath |-> fp, titlePath |-> TitlePath(fp, TitleOf(i)),
                                unexpectedPass |-> FALSE])
                 /\ passed' = passed
                 /\ flaky' = flaky
                 /\ b.passing = a.passing
      ]_vars

\* C10 witness: a test expected to pass used its whole retry budget (at least
\* one retry), its last attempt failed or timed out, and it is the one failure.
C10_Witness ==
    /\ runRetries >= 1
    /\ \E i \in DOMAIN host :
         /\ host[i].stage = "done"
         /\ host[i].expectedStatus = "passed"
         /\ host[i].attempts = runRetries + 1
         /\ host[i].last \in {"failed", "timedOut"}
         /\ failed = 1
         /\ RecordCount(failureDetails, allTests[i], TitleOf(i)) = 1

\* The step is the onTestEnd call that finalizes test i: the host is finished with
\* the test and its spec counted it.
Finalizes(i) ==
    /\ i \in DOMAIN host
    /\ i \in DOMAIN host'
    /\ host[i].stage = "running"
    /\ host'[i].stage = "done"
    /\ specStats'[allTests[i]].completed = specStats[allTests[i]].completed + 1

\* The status of the attempt that finalizes test i.
StatusOf(i) == host'[i].last

\* test.outcome() at the call that finalizes test i.
OutcomeOf(i) == Outcome(host[i].attempts, host'[i].last, host[i].expectedStatus)

\* The line the step appended to the lines of the spec of test i.
NewLine(i) ==
    specStats'[allTests[i]].testLines[Len(specStats'[allTests[i]].testLines)]

C13_ExpectedFailureIsPassed ==
    [][\A i \in DOMAIN host :
          (Finalizes(i) /\ StatusOf(i) = "failed" /\ OutcomeOf(i) = "expected")
          => LET fp == allTests[i]
                 a  == specStats[fp]
                 b  == specStats'[fp]
             IN  /\ passed' = passed + 1
                 /\ failed' = failed
                 /\ flaky' = flaky
                 /\ pending' = pending
                 /\ skipped' = skipped
                 /\ b.passing = a.passing + 1
                 /\ b.failing = a.failing
                 /\ b.testLines = Append(a.testLines,
                                         [mark |-> "check", title |-> TitleOf(i),
                                          color |-> "green",
                                          suffix |-> "(expected failure)"])
                 /\ failureDetails' = failureDetails
                 /\ \A n \in 1..Len(out') :
                      (n > Len(out) /\ out'[n].k = "results" /\ out'[n].file = fp)
                      => \A m \in 1..Len(out'[n].failures) :
                            out'[n].failures[m].titlePath # TitlePath(fp, TitleOf(i))
      ]_vars

\* C13 witness: a test.fail() test failed in its only attempt and was counted,
\* and the block of its spec was printed with no failure and failing = 0.
C13_Witness ==
    \E i \in DOMAIN host :
        /\ host[i].stage = "done"
        /\ host[i].expectedStatus = "failed"
        /\ host[i].attempts = 1
        /\ host[i].last = "failed"
        /\ LineCount(specStats[allTests[i]], TitleOf(i)) = 1
        /\ specStats[allTests[i]].failing = 0
        /\ BlockCount(out, allTests[i]) = 1
        /\ out[BlockAt(out, allTests[i])].failures = <<>>

\* C14: the onTestEnd that finalizes a test with status passed and outcome
\* unexpected (a test.fail() test that passed) counts it as failed, globally and
\* in its spec, appends a red cross line labelled "(unexpected pass)" and appends
\* a FailureRecord with the unexpected-pass flag set; a block of the spec printed
\* by the step lists that record among its failures.
C14_UnexpectedPassIsFailed ==
    [][\A i \in DOMAIN host :
          (Finalizes(i) /\ StatusOf(i) = "passed" /\ OutcomeOf(i) = "unexpected")
          => LET fp  == allTests[i]
                 a   == specStats[fp]
                 b   == specStats'[fp]
                 rec == [filePath |-> fp, titlePath |-> TitlePath(fp, TitleOf(i)),
                         unexpectedPass |-> TRUE]
             IN  /\ failed' = failed + 1
                 /\ passed' = passed
                 /\ flaky' = flaky
                 /\ b.failing = a.failing + 1
                 /\ b.passing = a.passing
                 /\ b.testLines = Append(a.testLines,
                                         [mark |-> "cross", title |-> TitleOf(i),
                                          color |-> "red",
                                          suffix |-> "(unexpected pass)"])
                 /\ failureDetails' = Append(failureDetails, rec)
                 /\ \A n \in 1..Len(out') :
                      (n > Len(out) /\ out'[n].k = "results" /\ out'[n].file = fp)
                      => \E m \in 1..Len(out'[n].failures) : out'[n].failures[m] = rec
      ]_vars

\* C14 witness: a test.fail() test passed in its last attempt, was counted as
\* failed, and the block of its spec was printed with its record.
C14_Witness ==
    \E i \in DOMAIN host :
        /\ host[i].stage = "done"
        /\ host[i].expectedStatus = "failed"
        /\ host[i].last = "passed"
        /\ specStats[allTests[i]].failing >= 1
        /\ BlockCount(out, allTests[i]) = 1
        /\ \E m \in 1..Len(out[BlockAt(out, allTests[i])].failures) :
             LET fl == out[BlockAt(out, allTests[i])].failures[m]
             IN  fl.titlePath = TitlePath(allTests[i], TitleOf(i)) /\ fl.unexpectedPass

\* C15: the onTestEnd that finalizes a test with status skipped (outcome neither
\* expected nor flaky) adds one to pending, and nothing to skipped, when the test
\* carries a fixme annotation, and one to skipped, and nothing to pending, when
\* it does not, globally and in its spec; the line is the dash line labelled
\* "(fixme)" or "(skipped)" accordingly.
C15_FixmeIsPendingSkipIsSkipped ==
    [][\A i \in DOMAIN host :
          (Finalizes(i) /\ StatusOf(i) = "skipped"
             /\ OutcomeOf(i) \notin {"expected", "flaky"})
          => LET fp == allTests[i]
                 a  == specStats[fp]
                 b  == specStats'[fp]
                 fx == host[i].fixme
             IN  /\ pending' = pending + (IF fx THEN 1 ELSE 0)
                 /\ skipped' = skipped + (IF fx THEN 0 ELSE 1)
                 /\ b.pending = a.pending + (IF fx THEN 1 ELSE 0)
                 /\ b.skipped = a.skipped + (IF fx THEN 0 ELSE 1)
                 /\ passed' = passed
                 /\ failed' = failed
                 /\ flaky' = flaky
                 /\ failureDetails' = failureDetails
                 /\ b.testLines = Append(a.testLines,
                                         [mark |-> "dash", title |-> TitleOf(i),
                                          color |-> "none",
                                          suffix |-> IF fx THEN "(fixme)"
                                                     ELSE "(skipped)"])
      ]_vars

\* C15 witness: one fixme test and one skip test were finalized, the first
\* counted as pending and the second as skipped.
C15_Witness ==
    /\ pending = 1
    /\ skipped = 1
    /\ \E i, j \in DOMAIN host :
         /\ host[i].stage = "done" /\ host[i].last = "skipped" /\ host[i].fixme
         /\ host[j].stage = "done" /\ host[j].last = "skipped" /\ ~host[j].fixme

\* The status line of a finished run: the last item written.
StatusShown == out[Len(out)].status

\* C16 as stated: once onEnd has returned, the status line reports a failing
\* state iff the global failed counter is nonzero and a passing state iff it is
\* zero, whatever status the host handed to onEnd.
C16_StatusFollowsFailedCounter ==
    phase = "ended" =>
        /\ out[Len(out)].k = "status"
        /\ (StatusShown = "FAILED") <=> (failed # 0)
        /\ (StatusShown = "PASSED") <=> (failed = 0)

\* C16 amended: once onEnd has returned, the last item written is the status
\* line and it shows, in upper case, the status the host handed to onEnd; the
\* failed counter decides the footer of the table, not the status line.
C16_StatusIsTheHostsStatus ==
    phase = "ended" =>
        /\ out[Len(out)].k = "status"
        /\ fullResult = "passed" => StatusShown = "PASSED"
        /\ fullResult = "failed" => StatusShown = "FAILED"
        /\ out[Len(out) - 1].k = "table"
        /\ (out[Len(out) - 1].footer.label = "All specs passed!") <=> (failed = 0)

\* C16 witness: a run in which no test was counted as failed ended with the host
\* reporting a failed run (a run that failed outside of the counted tests), and
\* the status line says so under an "All specs passed!" footer.
C16_Witness ==
    /\ phase = "ended"
    /\ failed = 0
    /\ fullResult = "failed"
    /\ StatusShown = "FAILED"
    /\ out[Len(out) - 1].footer.label = "All specs passed!"

\* The summary table of a finished run: the item before the status line.
TableShown == out[Len(out) - 1]

Content(item) ==
    [lines |-> item.lines, tests |-> item.tests, passing |-> item.passing,
     failing |-> item.failing, flaky |-> item.flaky, pending |-> item.pending,
     skipped |-> item.skipped, screenshots |-> item.screenshots,
     video |-> item.video, color |-> item.color, failures |-> item.failures]

\* The per-file state of file fp: its counters, its lines, its artifact paths,
\* its FailureRecords in the order recorded, and the content of its block (no
\* block: the empty sequence).
FileView(fp, stats, details, o) ==
    [total |-> stats[fp].total, completed |-> stats[fp].completed,
     passing |-> stats[fp].passing, failing |-> stats[fp].failing,
     flaky |-> stats[fp].flaky, pending |-> stats[fp].pending,
     skipped |-> stats[fp].skipped, lines |-> stats[fp].testLines,
     videoPaths |-> stats[fp].videoPaths,
     screenshotPaths |-> stats[fp].screenshotPaths,
     records |-> SelectSeq(details, LAMBDA fl : fl.filePath = fp),
     block |-> LET blocks == SelectSeq(o, LAMBDA item : item.k = "results" /\ item.file = fp)
               IN  IF blocks = <<>> THEN <<>> ELSE <<Content(blocks[1])>>]

\* The content of the block of a per-file state, from that state alone.
ContentOf(view) ==
    [lines |-> view.lines, tests |-> view.total, passing |-> view.passing,
     failing |-> view.failing, flaky |-> view.flaky, pending |-> view.pending,
     skipped |-> view.skipped, screenshots |-> Cardinality(view.screenshotPaths),
     video |-> view.videoPaths # {},
     color |-> IF view.failing = 0 THEN "green" ELSE "red",
     failures |-> view.records]

\* The per-file state after the file's own event "attempt `retry` of test
\* `title` ended with `status`", from the per-file state before it and the
\* event alone.
AfterTestEnd(view, fp, title, status, outcome, isFixme, retry, retries) ==
    IF ~IsFinalAttempt(status, outcome, retry, retries) THEN view
    ELSE LET bucket  == Bucket(status, outcome, isFixme)
             counted ==
                 [view EXCEPT
                    !.completed = @ + 1,
                    !.passing = IF bucket \in {"passed", "flaky"} THEN @ + 1 ELSE @,
                    !.flaky   = IF bucket = "flaky" THEN @ + 1 ELSE @,
                    !.pending = IF bucket = "pending" THEN @ + 1 ELSE @,
                    !.skipped = IF bucket = "skipped" THEN @ + 1 ELSE @,
                    !.failing = IF bucket = "failed" THEN @ + 1 ELSE @,
                    !.lines = Append(@, TestLine(title, status, outcome, isFixme)),
                    !.videoPaths =
                        @ \cup PathsOf(Attachments(title, status, retry), "video"),
                    !.screenshotPaths =
                        @ \cup PathsOf(Attachments(title, status, retry), "screenshot"),
                    !.records = IF bucket = "failed"
                                THEN Append(@, FailureRecord(fp, title, status))
                                ELSE @]
         IN  IF counted.completed = counted.total
             THEN [counted EXCEPT !.block = <<ContentOf(counted)>>]
             ELSE counted

\* The per-file state after onEnd, from the per-file state before it alone.
AfterEnd(view) ==
    IF view.completed > 0 /\ view.block = <<>>
    THEN [view EXCEPT !.block = <<ContentOf(view)>>]
    ELSE view

\* C11: the per-file state of a file (counters, lines, FailureRecords, content
\* of its block) is moved by the file's own events only, and each event moves
\* it to a state determined by the per-file state before and the event itself:
\* an event of another file leaves it as it is, a test-begin of its own leaves
\* it as it is, a test-end of its own takes it to AfterTestEnd and onEnd takes
\* it to AfterEnd.  Events of different files therefore commute on every
\* file's state, and any two interleavings of the same per-file event sequences
\* end every spec with the same counters, lines, records and block content.
C11_PerFileStateIsLocal ==
    [][\A fp \in DOMAIN specStats :
          LET before == FileView(fp, specStats, failureDetails, out)
              after  == FileView(fp, specStats', failureDetails', out')
          IN  /\ fp \in DOMAIN specStats'
              /\ IF phase' = "ended"
                 THEN after = AfterEnd(before)
                 ELSE IF \E i \in DOMAIN host :
                            /\ allTests[i] = fp
                            /\ host[i].stage = "running"
                            /\ host'[i].stage = "done"
                 THEN LET i == CHOOSE j \in DOMAIN host :
                                  /\ allTests[j] = fp
                                  /\ host[j].stage = "running"
                                  /\ host'[j].stage = "done"
                      IN  after = AfterTestEnd(before, fp, TitleOf(i), host'[i].last,
                                               OutcomeOf(i), host[i].fixme,
                                               host[i].attempts, runRetries)
                 ELSE \/ /\ specStats'[fp] = specStats[fp]
                         /\ failureDetails' = failureDetails
                         /\ out' = out
                      \/ after = before
      ]_vars

\* C11 witness: the events of two files were interleaved (the file discovered
\* second completed first, while a test of the first was running), both files
\* recorded a failure, and both blocks were printed.
C11_Witness ==
    /\ Len(specOrder) = 2
    /\ BlockCount(out, specOrder[1]) = 1
    /\ BlockCount(out, specOrder[2]) = 1
    /\ BlockAt(out, specOrder[2]) < BlockAt(out, specOrder[1])
    /\ specStats[specOrder[1]].startedAt < specStats[specOrder[2]].startedAt
    /\ specStats[specOrder[1]].failing = 1
    /\ specStats[specOrder[2]].failing = 1
    /\ phase = "begun"

\* The records of the printed spec whose grouping key is `key`, in the order
\* recorded.
RecordsOf(key) == SelectSeq(failureDetails, LAMBDA fl : GroupKey(fl) = key)

\* The grouping keys of the tests of the printed spec.
Keys == {<<FailedSpec, title>> : title \in FailedTitles}

\* The positions of the group headers in o.
Headers(o) == {n \in 1..Len(o) : o[n].k = "header"}

\* What was printed under the header at position h of o, up to the next header.
Under(o, h) ==
    SubSeq(o, h + 1,
           IF \E n \in Headers(o) : n > h
           THEN (CHOOSE n \in Headers(o) : n > h /\ \A m \in Headers(o) : m > h => n <= m) - 1
           ELSE Len(o))

\* What was printed for the group of `key`, a group of several records: the
\* items under the header that shows the key.
GroupOutput(o, key) ==
    Under(o, CHOOSE h \in Headers(o) : o[h].text = key)

\* The items of kind `kind` in a piece of output, in order.
Items(piece, kind) == SelectSeq(piece, LAMBDA item : item.k = kind)

\* The records of `key` are several and all carry the same error message.
SharedMessage(key) ==
    /\ Len(RecordsOf(key)) >= 2
    /\ RecordsOf(key)[1].error.message # Undefined
    /\ \A n \in 1..Len(RecordsOf(key)) :
         RecordsOf(key)[n].error.message = RecordsOf(key)[1].error.message

\* C18: when the printed spec has two or more records with the same grouping
\* key that all carry one and the same error message, the group is printed under
\* one header showing the key, with exactly one message and exactly one stack:
\* one full error block for the group, not one per configuration.
C18_OneFullBlockPerSharedError ==
    phase = "ended" =>
        \A key \in Keys :
            SharedMessage(key) =>
                /\ Cardinality({h \in Headers(out) : out[h].text = key}) = 1
                /\ Len(Items(GroupOutput(out, key), "message")) = 1
                /\ Len(Items(GroupOutput(out, key), "stack")) = 1
                /\ Items(GroupOutput(out, key), "message")[1].text
                       = RecordsOf(key)[1].error.message

\* C18 witness: the same test failed with the same message under two
\* configurations and the failures were printed with one message.
C18_Witness ==
    /\ phase = "ended"
    /\ \E key \in Keys :
         /\ SharedMessage(key)
         /\ Len(RecordsOf(key)) = 2
         /\ RecordsOf(key)[1].titlePath[2] # RecordsOf(key)[2].titlePath[2]
         /\ Len(Items(out, "message")) = 1

\* The attachment sections of a record as the claims expect them: the network
\* text and then the console text, each only when present.
Sections(rec) ==
    (IF rec.networkFailures # Undefined
     THEN <<[k |-> "network", text |-> rec.networkFailures]>> ELSE <<>>)
    \o (IF rec.consoleErrors # Undefined
        THEN <<[k |-> "console", text |-> rec.consoleErrors]>> ELSE <<>>)

\* The message and the stack frames of a record that has an error message.
FullError(rec) ==
    <<[k |-> "message", text |-> rec.error.message],
      [k |-> "stack", text |-> SelectSeq(rec.error.stack, LAMBDA line : line.at)]>>

RECURSIVE SubBlocks(_, _)
\* The attachments-only sub-blocks of the records from position n on: one per
\* record that carries an attachment, under the label of its configuration.
SubBlocks(recs, n) ==
    IF n > Len(recs) THEN <<>>
    ELSE (IF Sections(recs[n]) # <<>>
          THEN <<[k |-> "label", text |-> recs[n].titlePath[2]]>> \o Sections(recs[n])
          ELSE <<>>)
         \o SubBlocks(recs, n + 1)

\* C19 as stated: a group of several records with one and the same error
\* message is printed as the first record's message, stack and attachments,
\* followed by an attachments-only sub-block, labelled by configuration, for
\* each record other than the first that carries attachments, and by nothing
\* else: the first record's attachments appear once.
C19_SubBlocksOnlyForOtherRecords ==
    phase = "ended" =>
        \A key \in Keys :
            SharedMessage(key) =>
                GroupOutput(out, key)
                    = FullError(RecordsOf(key)[1]) \o Sections(RecordsOf(key)[1])
                      \o SubBlocks(RecordsOf(key), 2)

\* C19 witness of the failure: a group with a shared message whose first record
\* carries console errors and whose second carries nothing was printed, and
\* the console text of the first record appears twice.
C19_FirstRecordPrintedTwice ==
    /\ phase = "ended"
    /\ Len(failureDetails) = 2
    /\ \E key \in Keys :
         /\ SharedMessage(key)
         /\ RecordsOf(key)[1].consoleErrors # Undefined
         /\ RecordsOf(key)[2].consoleErrors = Undefined
         /\ RecordsOf(key)[2].networkFailures = Undefined
         /\ Len(Items(GroupOutput(out, key), "console")) = 2

\* The records of `key` are several and their error messages are not all the
\* same (a record without a message differs from one with a message).
DifferingMessages(key) ==
    /\ Len(RecordsOf(key)) >= 2
    /\ \E n \in 1..Len(RecordsOf(key)) :
         RecordsOf(key)[n].error.message # RecordsOf(key)[1].error.message

\* The full block of one record under the label of its configuration: its own
\* message (the placeholder when it has none), its own stack frames when it has
\* a stack, its own attachment sections.
LabelledFullBlock(rec) ==
    <<[k |-> "label", text |-> rec.titlePath[2]],
      [k |-> "message",
       text |-> IF rec.error.message # Undefined THEN rec.error.message
                ELSE IF rec.unexpectedPass
                THEN "Test was expected to fail but passed"
                ELSE "No error message available"]>>
    \o (IF rec.error.stack # <<>>
        THEN <<[k |-> "stack", text |-> SelectSeq(rec.error.stack, LAMBDA line : line.at)]>>
        ELSE <<>>)
    \o Sections(rec)

RECURSIVE LabelledFullBlocks(_, _)
LabelledFullBlocks(recs, n) ==
    IF n > Len(recs) THEN <<>>
    ELSE LabelledFullBlock(recs[n]) \o LabelledFullBlocks(recs, n + 1)

\* C20: a group of several records whose error messages differ is printed
\* under one header showing the key as one full block per record, in the order
\* the records were recorded, each labelled by the record's configuration
\* (titlePath[1]) and holding the record's own message, stack and attachments.
C20_OneFullBlockPerDifferingRecord ==
    phase = "ended" =>
        \A key \in Keys :
            DifferingMessages(key) =>
                /\ Cardinality({h \in Headers(out) : out[h].text = key}) = 1
                /\ GroupOutput(out, key) = LabelledFullBlocks(RecordsOf(key), 1)

\* C20 witness: the same test failed with message m2 under firefox and then with
\* message m1 and network failures under chromium, and both blocks were printed.
C20_Witness ==
    /\ phase = "ended"
    /\ \E key \in Keys :
         /\ DifferingMessages(key)
         /\ Len(RecordsOf(key)) = 2
         /\ RecordsOf(key)[1].titlePath[2] = "firefox"
         /\ RecordsOf(key)[1].error.message = "m2"
         /\ RecordsOf(key)[2].titlePath[2] = "chromium"
         /\ RecordsOf(key)[2].error.message = "m1"
         /\ RecordsOf(key)[2].networkFailures # Undefined
         /\ Len(Items(GroupOutput(out, key), "message")) = 2
         /\ Items(GroupOutput(out, key), "label")[1].text = "firefox"

\* What was printed for the records of `key`, whether one or several: the items
\* under the header that shows the key or, for a single record, its title path
\* from the configuration on.
PrintedFor(o, key) ==
    Under(o, CHOOSE h \in Headers(o) :
                 \/ o[h].text = key
                 \/ /\ Len(RecordsOf(key)) = 1
                    /\ o[h].text = SubSeq(RecordsOf(key)[1].titlePath, 2, 4))

RECURSIVE SplitAtLabels(_, _, _)
\* A piece of output cut before every label: the first part is what precedes
\* the first label (empty when the piece starts with a label).
SplitAtLabels(piece, n, parts) ==
    IF n > Len(piece) THEN parts
    ELSE SplitAtLabels(piece, n + 1,
             IF piece[n].k = "label"
             THEN Append(parts, <<piece[n]>>)
             ELSE [parts EXCEPT ![Len(parts)] = Append(@, piece[n])])

\* The blocks printed for the records of `key`, one per printed record.
BlocksOf(o, key) ==
    LET parts == SplitAtLabels(PrintedFor(o, key), 1, <<(<<>>)>>)
    IN  IF parts[1] = <<>> THEN Tail(parts) ELSE parts

\* The records of `key` a block is printed for, block by block: a single record;
\* or, when the records share their message, the first record and then every
\* record that carries an attachment; or every record.
PrintedRecords(key) ==
    IF Len(RecordsOf(key)) = 1 THEN RecordsOf(key)
    ELSE IF SharedMessage(key)
    THEN <<RecordsOf(key)[1]>>
         \o SelectSeq(RecordsOf(key), LAMBDA rec : Sections(rec) # <<>>)
    ELSE RecordsOf(key)

\* C21: every block printed for a failure record holds a console section iff
\* the record's console-errors text is present, and then with that text, and a
\* network section iff its network-failures text is present, and then with that
\* text; a record without the texts gets neither section and no placeholder
\* (a block holds nothing but label, message, stack and these sections), and
\* every record that has a text has a block.
C21_SectionsIffAttachments ==
    phase = "ended" =>
        \A key \in Keys :
            RecordsOf(key) # <<>> =>
                LET blocks == BlocksOf(out, key)
                    recs   == PrintedRecords(key)
                IN  /\ Len(blocks) = Len(recs)
                    /\ \A n \in 1..Len(blocks) :
                         /\ Items(blocks[n], "console")
                              = (IF recs[n].consoleErrors # Undefined
                                 THEN <<[k |-> "console", text |-> recs[n].consoleErrors]>>
                                 ELSE <<>>)
                         /\ Items(blocks[n], "network")
                              = (IF recs[n].networkFailures # Undefined
                                 THEN <<[k |-> "network", text |-> recs[n].networkFailures]>>
                                 ELSE <<>>)
                         /\ \A m \in 1..Len(blocks[n]) :
                              blocks[n][m].k \in {"label", "message", "stack",
                                                  "network", "console"}

\* C21 witness: a record with network failures and no console errors and a
\* record with neither were printed; the output holds one network section and
\* no console section.
C21_Witness ==
    /\ phase = "ended"
    /\ Len(failureDetails) = 2
    /\ failureDetails[1].networkFailures # Undefined
    /\ failureDetails[1].consoleErrors = Undefined
    /\ failureDetails[2].networkFailures = Undefined
    /\ failureDetails[2].consoleErrors = Undefined
    /\ GroupKey(failureDetails[1]) # GroupKey(failureDetails[2])
    /\ Len(Items(out, "network")) = 1
    /\ Len(Items(out, "console")) = 0

\* C22: an onTestBegin or onTestEnd call for a file that has no SpecStats leaves
\* the reporter as it is: the counters, the specs, the FailureRecords, the set
\* of displayed files and the output are unchanged and the clock is not read.
C22_UnknownFileIsNoOp ==
    [][(/\ Len(host') = Len(host) + 1
        /\ host'[Len(host')].file \notin DOMAIN specStats)
       => UNCHANGED <<now, totalTests, passed, failed, pending, skipped, flaky,
                      startTime, failureDetails, specOrder, specStats,
                      displayedSpecStart, out>>
      ]_vars

\* C22 witness: the host delivered an onTestBegin and then an onTestEnd for a
\* file the reporter has no spec for.
C22_Witness ==
    /\ Len(host) = 2
    /\ host[1].call = "onTestBegin"
    /\ host[2].call = "onTestEnd"
    /\ host[1].file \notin DOMAIN specStats
    /\ host[2].file \notin DOMAIN specStats
    /\ out = <<[k |-> "runStarting", specs |-> 1]>>

\* C23: a test counted as failed whose result has no error, or an error without
\* a message, is counted like any other (one record and failed + 1 each), and
\* when the failures of its spec are printed its record has a full block of its
\* own whose message is "Test was expected to fail but passed" for an
\* unexpected pass and "No error message available" otherwise.
C23_PlaceholderForMissingMessage ==
    /\ failed = Len(failureDetails)
    /\ phase = "ended" =>
         \A key \in Keys :
             \A n \in 1..Len(RecordsOf(key)) :
                 RecordsOf(key)[n].error.message = Undefined =>
                     /\ PrintedRecords(key) = RecordsOf(key)
                     /\ Len(BlocksOf(out, key)) = Len(RecordsOf(key))
                     /\ Items(BlocksOf(out, key)[n], "message")
                          = <<[k |-> "message",
                               text |-> IF RecordsOf(key)[n].unexpectedPass
                                        THEN "Test was expected to fail but passed"
                                        ELSE "No error message available"]>>

\* C23 witness: a failure without an error and an unexpected pass were recorded
\* and printed, each with its placeholder.
C23_Witness ==
    /\ phase = "ended"
    /\ failed = 2
    /\ failureDetails[1].error = NoError
    /\ ~failureDetails[1].unexpectedPass
    /\ failureDetails[2].unexpectedPass
    /\ GroupKey(failureDetails[1]) # GroupKey(failureDetails[2])
    /\ Items(out, "message")
         = <<[k |-> "message", text |-> "No error message available"],
             [k |-> "message", text |-> "Test was expected to fail but passed"]>>

\* The positions in o of the items of kind `kind`.
Places(o, kind) == {n \in 1..Len(o) : o[n].k = kind}

\* C24: the output is ordered. The run-start banner is the first item and there
\* is one; every results block comes after it and before the run-finished
\* banner; once onEnd has returned the output ends with one run-finished banner,
\* one summary table and one status line, in this order, and before that it
\* holds none of them; and the blocks appear in the order in which their files
\* were completed (the order of their endedAt readings).
C24_OutputOrder ==
    /\ phase # "idle" => (out # <<>> /\ Places(out, "runStarting") = {1})
    /\ phase = "idle" => out = <<>>
    /\ \A i \in Places(out, "results") :
         /\ i > 1
         /\ \A j \in Places(out, "runFinished") \cup Places(out, "table")
                       \cup Places(out, "status") : i < j
    /\ phase = "ended" =>
         /\ Places(out, "runFinished") = {Len(out) - 2}
         /\ Places(out, "table") = {Len(out) - 1}
         /\ Places(out, "status") = {Len(out)}
    /\ phase # "ended" =>
         Places(out, "runFinished") \cup Places(out, "table")
             \cup Places(out, "status") = {}
    /\ \A i, j \in Places(out, "results") :
         i < j => /\ specStats[out[i].file].endedAt > 0
                  /\ specStats[out[i].file].endedAt < specStats[out[j].file].endedAt

\* C24 witness: a finished run in which the file discovered second completed
\* first and the first after it; the output is the banner, the two blocks in
\* the order of completion, the run-finished banner, the table and the status
\* line.
C24_Witness ==
    /\ phase = "ended"
    /\ Len(specOrder) = 2
    /\ Len(out) = 6
    /\ out[2].k = "results"
    /\ out[2].file = specOrder[2]
    /\ out[3].k = "results"
    /\ out[3].file = specOrder[1]
    /\ out[4].k = "runFinished"

\* The number of characters of the file name of the i-th spec.
NameLength(i) == Len(specOrder[i]) - 2

C26_FilenameColumnFixedAt20 ==
    \A n \in 1..Len(out) :
        out[n].k = "table" =>
            /\ out[n].rule = 71
            /\ \A i \in 1..Len(specOrder) :
                 /\ Len(out[n].cells[i]) = 20
                 /\ NameLength(i) > 20 =>
                      /\ out[n].cells[i][20] = Ellipsis
                      /\ \A c \in 1..19 : out[n].cells[i][c] = specOrder[i][c + 2]

\* C26 witness of the failure: the table of a run with a spec file name of 22
\* characters was printed with a column of 22 and the name in full.
C26_LongNameShownInFull ==
    /\ out # <<>>
    /\ out[1].k = "table"
    /\ Len(specOrder) = 2
    /\ NameLength(1) = 9
    /\ NameLength(2) = 22
    /\ out[1].rule = 73
    /\ out[1].cells[2] = GetFileName(specOrder[2])
    /\ Len(out[1].cells[1]) = 22

\* The test ended up passing: its last attempt met the expectation.
EndedUpPassing ==
    /\ host.results # <<>>
    /\ host.results[Len(host.results)].status = host.expectedStatus

\* C27 as stated: no attempt of a test that ended up passing, a flaky test that
\* failed an attempt and passed a later one included, has a console-errors or a
\* network-failures attachment.
C27_NoAttachmentUnlessTestFails ==
    EndedUpPassing =>
        \A n \in 1..Len(host.results) : host.results[n].attachments = {}

\* C27 amended: the fixture decides per attempt. The result of an attempt has
\* the console-errors blob iff the attempt's status differs from the expected
\* status and console messages were captured, and the network-failures blob iff
\* the status differs and network failures were captured; so the attempts that
\* did not meet the expectation carry the blobs also when a later attempt does.
C27_AttachedPerUnmetAttempt ==
    \A n \in 1..Len(host.results) :
        LET r == host.results[n]
        IN  /\ ("console-errors" \in r.attachments)
                <=> (r.status # host.expectedStatus /\ r.consoleMessages > 0)
            /\ ("network-failures" \in r.attachments)
                <=> (r.status # host.expectedStatus /\ r.networkFailures > 0)
            /\ r.attachments \subseteq {"console-errors", "network-failures"}

\* C27 witness: a test expected to pass failed its first attempt, which got both
\* blobs, and passed its second, which got none although messages were captured.
C27_Witness ==
    /\ host.expectedStatus = "passed"
    /\ Len(host.results) = 2
    /\ host.results[1].status = "failed"
    /\ host.results[1].attachments = {"console-errors", "network-failures"}
    /\ host.results[2].status = "passed"
    /\ host.results[2].consoleMessages = 1
    /\ host.results[2].attachments = {}

\* C28 as stated: an error raised outside of any test that the host reports
\* (onError) is printed by the reporter as a (Global Error) block, so the
\* output holds as many such blocks as the host reported errors.
C28_GlobalErrorPrinted ==
    Cardinality({n \in 1..Len(host) : host[n].call = "onError"})
        = Cardinality({j \in 1..Len(out) : out[j].k = "globalError"})

\* C28, the failure: the host reported an error outside of any test and the
\* output is still the run-start banner alone.
C28_GlobalErrorIgnored ==
    /\ \E n \in 1..Len(host) : host[n].call = "onError"
    /\ out = <<[k |-> "runStarting", specs |-> 1]>>

\* C29 as stated: the onTestEnd of a passing test annotated slow (outcome
\* expected) counts the test as passed and appends a test line whose suffix
\* is "(slow)".
C29_SlowSuffix ==
    [][(/\ Len(host') = Len(host) + 1
        /\ host'[Len(host')].call = "onTestEnd"
        /\ host'[Len(host')].slow)
       => LET lines == specStats'["a.spec.ts"].testLines
          IN  /\ passed' = passed + 1
              /\ Len(lines) = Len(specStats["a.spec.ts"].testLines) + 1
              /\ lines[Len(lines)].mark = "check"
              /\ lines[Len(lines)].suffix = "(slow)"
      ]_vars

\* C29, the failure: a passing slow test was counted as passed and its line is
\* the line of any passing test, without a suffix.
C29_SlowLineHasNoSuffix ==
    /\ Len(host) = 1
    /\ host[1].call = "onTestEnd"
    /\ host[1].slow
    /\ passed = 1
    /\ specStats["a.spec.ts"].testLines
         = <<[mark |-> "check", title |-> TitleOf(1), color |-> "green", suffix |-> ""]>>

\* The step is an onTestBegin call for test i: the host starts its first attempt
\* or a retry.
Begins(i) ==
    /\ i \in DOMAIN host
    /\ i \in DOMAIN host'
    /\ host[i].stage \in {"pending", "waiting"}
    /\ host'[i].stage = "running"

\* No test of file fp has begun yet.
NoneBegun(fp) ==
    \A j \in DOMAIN host : allTests[j] = fp => host[j].stage = "pending"

\* C30: a spec's startedAt changes only at the first onTestBegin for its file,
\* which sets it to the time of the call; every later onTestBegin for the file
\* (a second test of the file, a retry) changes nothing in the reporter: not
\* startedAt, no counter, no record, no output, and no clock read.
C30_StartedAtSetOnceByFirstBegin ==
    [][/\ \A fp \in DOMAIN specStats :
             specStats'[fp].startedAt # specStats[fp].startedAt
                 => /\ \E i \in DOMAIN host : Begins(i) /\ allTests[i] = fp
                    /\ NoneBegun(fp)
                    /\ specStats[fp].startedAt = 0
                    /\ specStats'[fp].startedAt = now
       /\ \A i \in DOMAIN host :
             (Begins(i) /\ ~NoneBegun(allTests[i]))
                 => UNCHANGED <<now, totalTests, passed, failed, pending, skipped,
                                flaky, startTime, failureDetails, specOrder,
                                specStats, displayedSpecStart, out>>
       /\ \A i \in DOMAIN host :
             (Begins(i) /\ NoneBegun(allTests[i]))
                 => specStats'[allTests[i]].startedAt = now
      ]_vars

\* C30 witness: the retry of a test has begun in a file whose first onTestBegin
\* came earlier: startedAt still holds the time of that first call although the
\* clock has been read again since.
C30_Witness ==
    \E i \in DOMAIN host :
        /\ host[i].stage = "running"
        /\ host[i].attempts >= 1
        /\ specStats[allTests[i]].startedAt # 0
        /\ specStats[allTests[i]].startedAt + 1 < now

\* The projects of the configuration that have at least one discovered test.
Qualifying == {n \in 1..Len(host) : host[n].name \in SeqRange(allTests)}

\* The Browser text that onBegin computed.
BrowserText == out[Len(out)].text

\* The positions of the entries in the Browser text (the odd ones; separators
\* sit at the even ones).
EntryPlaces == {p \in 1..Len(BrowserText) : p % 2 = 1}

\* The first qualifying project whose entry is the one at place p.
FirstProjectOf(p) ==
    CHOOSE n \in Qualifying :
        /\ EntryOf(host[n]) = BrowserText[p]
        /\ \A m \in Qualifying : EntryOf(host[m]) = BrowserText[p] => n <= m

\* C31: the Browser text is 'chromium (headless)' when no configured project
\* has a discovered test; otherwise it holds the entry of every project that
\* has one, each distinct entry once, in the configuration order of the first
\* project giving it, with ', ' between neighbours and nothing else; projects
\* without tests contribute nothing.
C31_BrowserDisplay ==
    (phase = "begun" /\ out # <<>> /\ out[Len(out)].k = "browser") =>
        IF Qualifying = {}
        THEN BrowserText = <<[name |-> "chromium", mode |-> "headless"]>>
        ELSE /\ Len(BrowserText) % 2 = 1
             /\ \A p \in 1..Len(BrowserText) :
                    p % 2 = 0 => BrowserText[p] = [name |-> ", ", mode |-> ""]
             /\ \A p \in EntryPlaces :
                    /\ BrowserText[p].mode \in {"headless", "headed"}
                    /\ \E n \in Qualifying : EntryOf(host[n]) = BrowserText[p]
             /\ \A n \in Qualifying :
                    Cardinality({p \in EntryPlaces : BrowserText[p] = EntryOf(host[n])}) = 1
             /\ \A p, q \in EntryPlaces :
                    p < q => FirstProjectOf(p) < FirstProjectOf(q)

\* C31 witness: two projects with tests give different entries, listed in
\* configuration order, the second one headed; the tests were discovered in the
\* opposite order.
C31_Witness ==
    /\ phase = "begun"
    /\ Len(host) = 2
    /\ allTests = <<host[2].name, host[1].name>>
    /\ host[1].name # host[2].name
    /\ Len(BrowserText) = 3
    /\ BrowserText[1] = EntryOf(host[1])
    /\ BrowserText[3] = EntryOf(host[2])
    /\ BrowserText[3].mode = "headed"

\* The clock text that onEnd wrote.
ClockText == out[Len(out)].text

RECURSIVE DigitsValue(_)
\* The number a sequence of decimal digits denotes.
DigitsValue(digits) ==
    IF digits = <<>> THEN 0
    ELSE 10 * DigitsValue(SubSeq(digits, 1, Len(digits) - 1)) + digits[Len(digits)]

\* C32: for a duration of d milliseconds the clock text is MM:SS with
\* s = max(0, floor(d / 1000)): the part before the colon is floor(s / 60) in
\* decimal, two digits long below 100 minutes and without a leading zero from
\* 100 minutes on; the part after it is s mod 60 in exactly two digits; and
\* every negative d gives 00:00.
C32_ClockIsFloorSecondsClamped ==
    (phase = "ended" /\ out # <<>> /\ out[Len(out)].k = "clock") =>
        LET d == now - startTime
            s == IF d < 0 THEN 0 ELSE d \div 1000
            colons == {p \in 1..Len(ClockText) : ClockText[p] = Colon}
            c == CHOOSE p \in colons : TRUE
            mm == SubSeq(ClockText, 1, c - 1)
            ss == SubSeq(ClockText, c + 1, Len(ClockText))
        IN  /\ Cardinality(colons) = 1
            /\ \A p \in 1..Len(ClockText) : p # c => ClockText[p] \in 0..9
            /\ DigitsValue(mm) = s \div 60
            /\ Len(mm) >= 2
            /\ Len(mm) > 2 => mm[1] # 0
            /\ DigitsValue(ss) = s % 60
            /\ Len(ss) = 2
            /\ d < 0 => ClockText = <<0, 0, Colon, 0, 0>>

\* C32 witness: a duration of 100 minutes, 9 seconds and 999 milliseconds is
\* shown as 100:09.
C32_Witness ==
    /\ phase = "ended"
    /\ now - startTime = 6009999
    /\ ClockText = <<1, 0, 0, Colon, 0, 9>>

\* The stack items of the output.
StackItems == {j \in 1..Len(out) : out[j].k = "stack"}

\* A stack line is a frame of user code: a call-stack frame outside
\* node_modules.
UserFrame(line) == line.at /\ line.text[1] # "node_modules"

\* C33 as stated: every stack line printed in a failure block is a call-stack
\* frame of user code; the lines of the stack that are no frames and the frames
\* inside node_modules are dropped.
C33_OnlyUserFramesPrinted ==
    \A j \in StackItems :
        \A n \in 1..Len(out[j].text) : UserFrame(out[j].text[n])

\* C33, the failure: a printed stack holds the user frame followed by the
\* frame inside node_modules; only the line that is no frame was dropped.
C33_FrameworkFramePrinted ==
    \E j \in StackItems :
        /\ Len(out[j].text) = 2
        /\ UserFrame(out[j].text[1])
        /\ out[j].text[2].at
        /\ out[j].text[2].text[1] = "node_modules"

RECURSIVE SumOver(_, _)
\* The sum of the counter `count` (a function of the file) over the files of
\* `order`.
SumOver(order, count) ==
    IF order = <<>> THEN 0 ELSE count[Head(order)] + SumOver(Tail(order), count)

\* C34: each global counter is the sum of the specs' counters of the same
\* bucket (passed of passing, failed of failing, and flaky, pending, skipped
\* of their namesakes); hence in the summary table the footer is red iff
\* some row is red.
C34_GlobalIsSumOfSpecs ==
    /\ passed = SumOver(specOrder, [fp \in DOMAIN specStats |-> specStats[fp].passing])
    /\ failed = SumOver(specOrder, [fp \in DOMAIN specStats |-> specStats[fp].failing])
    /\ flaky = SumOver(specOrder, [fp \in DOMAIN specStats |-> specStats[fp].flaky])
    /\ pending = SumOver(specOrder, [fp \in DOMAIN specStats |-> specStats[fp].pending])
    /\ skipped = SumOver(specOrder, [fp \in DOMAIN specStats |-> specStats[fp].skipped])
    /\ phase = "ended" =>
           ((TableShown.footer.color = "red")
               <=> (\E n \in 1..Len(TableShown.rows) : TableShown.rows[n].color = "red"))

\* C34 witness: after onEnd two specs have counted a flaky test and a failed
\* test between them, and the footer is red over one green and one red row.
C34_Witness ==
    /\ phase = "ended"
    /\ Len(specOrder) = 2
    /\ flaky = 1
    /\ passed = 1
    /\ failed = 1
    /\ specStats[specOrder[1]].flaky = 1
    /\ specStats[specOrder[2]].failing = 1
    /\ TableShown.footer.color = "red"
    /\ TableShown.rows[1].color = "green"

\* The number of FailureRecords filed under file fp.
RecordsOfFile(details, fp) ==
    Cardinality({i \in 1..Len(details) : details[i].filePath = fp})

\* C35: in every state there are as many FailureRecords as the global failed
\* counter says and, for every spec, as many records with its file path as its
\* failing counter says, and a spec has as many test lines as tests completed;
\* and every step leaves the records that exist as they are, in place: records
\* are appended only.
C35_RecordsMatchCounters ==
    /\ [](/\ Len(failureDetails) = failed
          /\ \A fp \in DOMAIN specStats :
                /\ RecordsOfFile(failureDetails, fp) = specStats[fp].failing
                /\ Len(specStats[fp].testLines) = specStats[fp].completed)
    /\ [][/\ Len(failureDetails') >= Len(failureDetails)
          /\ SubSeq(failureDetails', 1, Len(failureDetails)) = failureDetails
         ]_vars

\* C35 witness: two specs have counted one failed test each, their records are
\* kept in the order of the failures, and the run has ended.
C35_Witness ==
    /\ phase = "ended"
    /\ Len(failureDetails) = 2
    /\ failureDetails[1].filePath # failureDetails[2].filePath
    /\ failed = 2
    /\ \A fp \in DOMAIN specStats : specStats[fp].failing = 1

\* C36: in every state a spec's results block is in the output iff the spec's
\* endedAt is not 0 (the clock never reads 0), and in a run in which every
\* onTestEnd precedes onEnd no step changes an endedAt that is not 0: endedAt is
\* written at most once per spec, by the step that prints the block.
C36_EndedAtMarksFlushed ==
    /\ [](\A fp \in DOMAIN specStats :
             (BlockCount(out, fp) >= 1) <=> (specStats[fp].endedAt # 0))
    /\ [][\A fp \in DOMAIN specStats :
             /\ specStats[fp].endedAt # 0 => specStats'[fp].endedAt = specStats[fp].endedAt
             /\ specStats'[fp].endedAt # specStats[fp].endedAt
                    => BlockCount(out', fp) = BlockCount(out, fp) + 1
         ]_vars

\* C36 witness: after onEnd one spec, flushed by its last onTestEnd, has its
\* block and its endedAt, and another, which counted nothing, has neither.
C36_Witness ==
    /\ phase = "ended"
    /\ \E fp \in DOMAIN specStats :
          /\ specStats[fp].completed = specStats[fp].total
          /\ specStats[fp].endedAt # 0
          /\ BlockCount(out, fp) = 1
    /\ \E fp \in DOMAIN specStats :
          /\ specStats[fp].completed = 0
          /\ specStats[fp].endedAt = 0
          /\ BlockCount(out, fp) = 0

\* The records of `key` are several and none carries an error message.
AllLackMessage(key) ==
    /\ Len(RecordsOf(key)) >= 2
    /\ \A n \in 1..Len(RecordsOf(key)) : RecordsOf(key)[n].error.message = Undefined

\* C37 as stated: a group of several records that all lack an error message is
\* printed as one full block: under its header there is one message, the
\* placeholder, and no full block per configuration.
C37_OneBlockForMessagelessGroup ==
    phase = "ended" =>
        \A key \in Keys :
            AllLackMessage(key) =>
                /\ Cardinality({h \in Headers(out) : out[h].text = key}) = 1
                /\ Len(Items(GroupOutput(out, key), "message")) = 1

\* C37 amended: a group of several records that all lack an error message does
\* not count as sharing an error. It is printed under one header showing the
\* key as one full block per record, in recorded order, each under the label of
\* its configuration with the placeholder message of that record ("Test was
\* expected to fail but passed" for an unexpected pass, "No error message
\* available" otherwise) and the record's own stack and attachment sections.
C37_MessagelessGroupPrintedPerRecord ==
    phase = "ended" =>
        \A key \in Keys :
            AllLackMessage(key) =>
                /\ Cardinality({h \in Headers(out) : out[h].text = key}) = 1
                /\ Len(Items(GroupOutput(out, key), "message")) = Len(RecordsOf(key))
                /\ Len(Items(GroupOutput(out, key), "label")) = Len(RecordsOf(key))
                /\ \A n \in 1..Len(RecordsOf(key)) :
                      /\ Items(GroupOutput(out, key), "label")[n].text
                             = RecordsOf(key)[n].titlePath[2]
                      /\ Items(GroupOutput(out, key), "message")[n].text
                             = IF RecordsOf(key)[n].unexpectedPass
                               THEN "Test was expected to fail but passed"
                               ELSE "No error message available"
                /\ GroupOutput(out, key) = LabelledFullBlocks(RecordsOf(key), 1)

\* C37 witness: the same test passed unexpectedly under two configurations and
\* the placeholder was printed twice, once under each configuration's label.
C37_Witness ==
    /\ phase = "ended"
    /\ \E key \in Keys :
         /\ AllLackMessage(key)
         /\ Len(RecordsOf(key)) = 2
         /\ RecordsOf(key)[1].unexpectedPass
         /\ RecordsOf(key)[2].unexpectedPass
         /\ RecordsOf(key)[1].titlePath[2] # RecordsOf(key)[2].titlePath[2]
         /\ Len(Items(GroupOutput(out, key), "message")) = 2
         /\ Items(GroupOutput(out, key), "message")[1].text
                = "Test was expected to fail but passed"
         /\ Items(GroupOutput(out, key), "label")[1].text = RecordsOf(key)[1].titlePath[2]

\* onEnd has been called before this step.
EndCalled == \E n \in 1..Len(host) : host[n].call = "onEnd"

\* C38 as stated: whatever callbacks the host delivers after onBegin and in
\* whatever order, no spec's results block is printed twice and no step changes
\* an endedAt that is not 0.
C38_ExactlyOnceInAnyOrder ==
    /\ [](\A fp \in DOMAIN specStats : BlockCount(out, fp) <= 1)
    /\ [][\A fp \in DOMAIN specStats :
             specStats[fp].endedAt # 0 => specStats'[fp].endedAt = specStats[fp].endedAt
         ]_vars

\* C38 amended: exactly-once flushing holds for every sequence of callbacks
\* that come before the first onEnd, repeated finalizations included, and for
\* repeated onEnd calls; it depends on onEnd coming last. The one step that
\* prints a second block and overwrites endedAt is an onTestEnd delivered
\* after onEnd that brings completed to total in a spec that onEnd had flushed
\* with completed < total; no spec is printed more than twice.
C38_SecondFlushOnlyByLateTestEnd ==
    /\ [](\A fp \in DOMAIN specStats :
             /\ BlockCount(out, fp) <= 2
             /\ ~EndCalled => BlockCount(out, fp) <= 1)
    /\ [][\A fp \in DOMAIN specStats :
             LET overwrites == /\ specStats[fp].endedAt # 0
                               /\ specStats'[fp].endedAt # specStats[fp].endedAt
                 again == /\ BlockCount(out, fp) >= 1
                          /\ BlockCount(out', fp) > BlockCount(out, fp)
             IN  /\ overwrites <=> again
                 /\ again <=> /\ EndCalled
                              /\ host'[Len(host')].call = "onTestEnd"
                              /\ specStats[fp].endedAt # 0
                              /\ specStats[fp].completed < specStats[fp].total
                              /\ specStats'[fp].completed = specStats[fp].total
         ]_vars

\* C38 witness: onTestEnd, onEnd, onTestEnd for a file of two tests: onEnd
\* flushed the file with one test counted, the late onTestEnd flushed it again.
C38_Witness ==
    /\ Len(host) = 3
    /\ host[1].call = "onTestEnd"
    /\ host[2].call = "onEnd"
    /\ host[3].call = "onTestEnd"
    /\ BlockCount(out, "a.spec.ts") = 2
    /\ specStats["a.spec.ts"].completed = 2
    /\ specStats["a.spec.ts"].total = 2
====
